---- MODULE Spec2Model ----
(***************************************************************************)
(* Model of package opt (FallenTaters/opt): the generic Option[T] wrapper  *)
(* of option.go, its constructors and accessors, its database/sql and      *)
(* encoding/json delegation points and the coercion engine scanAssign.     *)
(*                                                                         *)
(* Go values are records [k, n, s]: k is the dynamic type as %T prints it, *)
(* n the numeric payload (integers; float64 in tenths; bool as 0/1; for a  *)
(* byte slice 0 = nil slice, 1 = non-nil; for time.Time the instant; for a *)
(* pointer the address, 0 = nil) and s the text payload as a sequence of   *)
(* characters (string contents, byte slice contents, a struct's V field).  *)
(* Go strings are sequences of one-character strings so that formatting    *)
(* and parsing are computed, not assumed.                                  *)
(***************************************************************************)
EXTENDS Integers, Sequences, FiniteSets, TLC

VARIABLES o, heap, held, origin, ret, pre

vars == <<o, heap, held, origin, ret, pre>>

(***************************************************************************)
(* Bounds of the model.                                                    *)
(***************************************************************************)
\* number of heap cells (cell 1 is the option's own value slot)
MaxHeap == 3
\* number of pointers the caller keeps
MaxHeld == 2

(***************************************************************************)
(* Values and types.                                                       *)
(***************************************************************************)
Val(k, n, s) == [k |-> k, n |-> n, s |-> s]

Nil == Val("nil", 0, <<>>)

IntV(n) == Val("int64", n, <<>>)

FloatV(tenths) == Val("float64", tenths, <<>>)

BoolV(b) == Val("bool", IF b THEN 1 ELSE 0, <<>>)

StrV(s) == Val("string", 0, s)

\* a non-nil byte slice with contents s, over an array of its own
BytesV(s) == Val("[]uint8", 1, s)

\* a non-nil byte slice with contents s over the array the caller of Scan
\* keeps and may write to
CallerBytes(s) == Val("[]uint8", 2, s)

\* whether v is a byte slice over the caller's array
SharesCallerArray(v) == v.k \in {"[]uint8", "json.RawMessage"} /\ v.n = 2

\* []byte(nil)
NilBytes == Val("[]uint8", 0, <<>>)

TimeV(i) == Val("time.Time", i, <<>>)

\* a pointer to a T, address a (0 is the nil pointer)
PtrV(T, a) == Val("*" \o T, a, <<>>)

\* TestStruct1{V: s}: a plain struct with no methods
Struct1V(s) == Val("opt_test.TestStruct1", 0, s)

\* TestStruct2{V: s}: implements sql.Scanner, driver.Valuer and the json
\* interfaces
Struct2V(s) == Val("opt_test.TestStruct2", 0, s)

\* sql.NullInt64{Int64: n, Valid: valid}
NullInt64V(n, valid) == Val("sql.NullInt64", n, IF valid THEN <<"V">> ELSE <<>>)

Hello == <<"h", "e", "l", "l", "o">>

\* the types T the option is instantiated with
Types ==
  {"int64", "float64", "string", "bool", "[]uint8", "interface {}",
   "time.Time", "int8", "uint8", "opt_test.TestStruct1",
   "opt_test.TestStruct2"}

\* pointer types *X
PtrTypes ==
  {"*int64", "*int8", "*string", "*bool", "*[]uint8", "*time.Time",
   "*opt_test.TestStruct1", "*opt_test.TestStruct2"}

\* reflect.Type.Elem of a pointer type: the X of *X
Elem(T) ==
  CASE T = "*int64" -> "int64"
    [] T = "*int8" -> "int8"
    [] T = "*string" -> "string"
    [] T = "*bool" -> "bool"
    [] T = "*[]uint8" -> "[]uint8"
    [] T = "*time.Time" -> "time.Time"
    [] T = "*opt_test.TestStruct1" -> "opt_test.TestStruct1"
    [] T = "*opt_test.TestStruct2" -> "opt_test.TestStruct2"
    [] T = "**int64" -> "*int64"

\* an option as the T of another option, and a pointer to a pointer
NestedTypes == {"opt.Option[int64]", "**int64"}

\* type String string: a user defined type whose kind is string
NamedString == "opt_test.String"

\* the types the coercion engine is exercised with: those, a library type
\* with a Scan method of its own, a named byte-slice type, a named string
\* type and the pointer types
ScanTypes ==
  Types \cup {"sql.NullInt64", "json.RawMessage", NamedString} \cup PtrTypes
    \cup NestedTypes

\* reflect.Kind of a type
KindOf(T) ==
  CASE T = "int64" -> "int64"
    [] T = "int8" -> "int8"
    [] T = "int" -> "int"
    [] T = "uint8" -> "uint8"
    [] T = "float64" -> "float64"
    [] T = "string" -> "string"
    [] T = "opt_test.String" -> "string"
    [] T = "bool" -> "bool"
    [] T = "[]uint8" -> "slice"
    [] T = "json.RawMessage" -> "slice"
    [] T = "map[string]int64" -> "map"
    [] T = "interface {}" -> "interface"
    [] T = "sql.Scanner" -> "interface"
    [] T = "chan int" -> "chan"
    [] T = "func()" -> "func"
    [] T = "time.Time" -> "struct"
    [] T = "opt_test.TestStruct1" -> "struct"
    [] T = "opt_test.TestStruct2" -> "struct"
    [] T = "sql.NullInt64" -> "struct"
    [] T = "opt.Option[int64]" -> "struct"
    [] T = "nil" -> "invalid"
    [] OTHER -> "ptr"

IsIntKind(k) == k \in {"int", "int8", "int16", "int32", "int64"}

IsUintKind(k) == k \in {"uint", "uint8", "uint16", "uint32", "uint64"}

IsFloatKind(k) == k \in {"float32", "float64"}

\* a width that holds every integer, whatever the type
BitsOfWidest(T) == 64

\* reflect.Type.Bits of a sized numeric type
BitsOf(T) ==
  CASE KindOf(T) \in {"int8", "uint8"} -> 8
    [] KindOf(T) \in {"int16", "uint16"} -> 16
    [] KindOf(T) \in {"int32", "uint32", "float32"} -> 32
    [] OTHER -> 64

\* the zero value of T: what Option[T]{} holds in V
Zero(T) ==
  CASE T = "string" -> StrV(<<>>)
    [] T = "[]uint8" -> NilBytes
    [] T = "interface {}" -> Nil
    [] T = "sql.Scanner" -> Nil
    [] T = "opt_test.TestStruct1" -> Struct1V(<<>>)
    [] T = "opt_test.TestStruct2" -> Struct2V(<<>>)
    [] OTHER -> Val(T, 0, <<>>)

\* the values of type T the caller constructs options and pointees from
UserVals(T) ==
  CASE T = "int64" -> {IntV(0), IntV(1), IntV(-1)}
    [] T = "int8" -> {Val("int8", 0, <<>>), Val("int8", 1, <<>>)}
    [] T = "uint8" -> {Val("uint8", 0, <<>>), Val("uint8", 1, <<>>)}
    [] T = "float64" -> {FloatV(0), FloatV(11)}
    [] T = "string" -> {StrV(<<>>), StrV(Hello)}
    [] T = "bool" -> {BoolV(FALSE), BoolV(TRUE)}
    [] T = "[]uint8" -> {NilBytes, BytesV(<<>>), BytesV(Hello)}
    [] T = "interface {}" -> {Nil, IntV(0), StrV(Hello)}
    [] T = "time.Time" -> {TimeV(0), TimeV(1)}
    [] T = "opt_test.TestStruct1" -> {Struct1V(<<>>), Struct1V(Hello)}
    [] T = "opt_test.TestStruct2" -> {Struct2V(<<>>), Struct2V(Hello)}

\* the int values held by the options the XML codec is exercised with
XMLVals == {Val("int", n, <<>>) : n \in {-1, 0, 1, 7, 12}}

\* the types GoString is exercised with: those of TestGoString and the
\* empty interface
GoTypes ==
  {"int", "string", "bool", "sql.NullInt64", "sql.Scanner", "interface {}",
   "chan int", "func()", "opt_test.TestStruct1"}

\* &sql.NullInt64{Int64: n, Valid: valid}, by what it points at
RefNullInt64V(n, valid) ==
  Val("*sql.NullInt64", n, IF valid THEN <<"V">> ELSE <<>>)

\* the values of type T held by the options GoString is called on
GoVals(T) ==
  CASE T = "int" -> {Val("int", n, <<>>) : n \in {-1, 0, 1, 12}}
    [] T = "string" -> {StrV(<<>>), StrV(Hello)}
    [] T = "bool" -> {BoolV(FALSE), BoolV(TRUE)}
    [] T = "sql.NullInt64" -> {NullInt64V(0, FALSE), NullInt64V(1, TRUE)}
    [] T = "sql.Scanner" ->
         {RefNullInt64V(0, FALSE), RefNullInt64V(1, TRUE)}
    [] T = "interface {}" -> {Val("int", 1, <<>>), StrV(Hello)}
    [] T = "opt_test.TestStruct1" -> {Struct1V(<<>>), Struct1V(Hello)}
    [] OTHER -> {}

\* a map[string]int64: nil, or non-nil with the keys s
MapV(nonnil, s) == Val("map[string]int64", IF nonnil THEN 1 ELSE 0, s)

\* the types NullOrZero is exercised with: those, and a map type, whose
\* values do not compare
ZeroTypes == Types \cup {"map[string]int64"}

\* the values of type T held by the options NullOrZero is called on; for
\* the interface type also a nil pointer and an empty string inside it
ZeroVals(T) ==
  IF T = "map[string]int64"
  THEN {MapV(FALSE, <<>>), MapV(TRUE, <<>>), MapV(TRUE, <<"k">>)}
  ELSE IF T = "interface {}"
  THEN UserVals(T) \cup {PtrV("int64", 0), StrV(<<>>), IntV(1)}
  ELSE UserVals(T)

\* the driver values handed to Scan: the matrix of the sql.Scanner tests
\* plus text that parses as a number or a boolean
ScanSources ==
  {IntV(0), IntV(1), IntV(2), IntV(200), FloatV(0), FloatV(10), FloatV(11),
   BoolV(TRUE), BoolV(FALSE), NilBytes, BytesV(<<>>), BytesV(Hello),
   BytesV(<<"1">>), StrV(<<>>), StrV(Hello), StrV(<<"1">>),
   StrV(<<"-", "1">>), StrV(<<"1", ".", "1">>), StrV(<<"t", "r", "u", "e">>),
   TimeV(0), TimeV(1), Nil}

\* integers on both sides of the edges of the 8 bit ranges
EdgeInts == {-129, -128, -1, 127, 128, 255, 256}

\* the driver values the coercion engine is exercised with: those, byte
\* slices over an array the caller keeps, and the integers at the edges
EngineSources ==
  ScanSources \cup {CallerBytes(<<>>), CallerBytes(Hello)}
    \cup {IntV(n) : n \in EdgeInts}

(***************************************************************************)
(* strconv: formatting and parsing over character sequences.               *)
(***************************************************************************)
Digits == <<"0", "1", "2", "3", "4", "5", "6", "7", "8", "9">>

IsDigit(c) == \E d \in 1..Len(Digits) : Digits[d] = c

DigitOf(c) == (CHOOSE d \in 1..Len(Digits) : Digits[d] = c) - 1

Abs(n) == IF n < 0 THEN 0 - n ELSE n

\* strconv.FormatUint(n, 10)
RECURSIVE FormatUint(_)
FormatUint(n) ==
  IF n < 10 THEN <<Digits[n + 1]>>
  ELSE FormatUint(n \div 10) \o <<Digits[(n % 10) + 1]>>

\* strconv.FormatInt(n, 10)
FormatInt(n) == IF n < 0 THEN <<"-">> \o FormatUint(0 - n) ELSE FormatUint(n)

\* strconv.FormatFloat(x, 'g', -1, 64) of x = tenths/10, for |x| < 1e6 where
\* the shortest form is plain decimal notation
FormatFloat(tenths) ==
  LET sign == IF tenths < 0 THEN <<"-">> ELSE <<>>
      a == Abs(tenths)
  IN  IF a % 10 = 0 THEN sign \o FormatUint(a \div 10)
      ELSE sign \o FormatUint(a \div 10) \o <<".">> \o <<Digits[(a % 10) + 1]>>

\* strconv.FormatBool
FormatBool(b) ==
  IF b THEN <<"t", "r", "u", "e">> ELSE <<"f", "a", "l", "s", "e">>

AllDigits(s) == \A i \in 1..Len(s) : IsDigit(s[i])

\* the number a non-empty digit sequence denotes
RECURSIVE DigitsValue(_)
DigitsValue(s) ==
  IF Len(s) = 0 THEN 0
  ELSE DigitsValue(SubSeq(s, 1, Len(s) - 1)) * 10 + DigitOf(s[Len(s)])

\* 1 << (bits-1) for the narrow widths; the 32 and 64 bit cutoffs lie beyond
\* every number of the model and are never reached
Cutoff(bits) == IF bits = 8 THEN 128 ELSE IF bits = 16 THEN 32768 ELSE 0

ErrSyntax == "invalid syntax"

ErrRange == "value out of range"

\* strconv.ParseUint(s, 10, bits): [err, n], err = "" on success
ParseUint(s, bits) ==
  IF Len(s) = 0 \/ ~AllDigits(s) THEN [err |-> ErrSyntax, n |-> 0]
  ELSE LET n == DigitsValue(s)
       IN  IF Cutoff(bits) > 0 /\ n >= 2 * Cutoff(bits)
           THEN [err |-> ErrRange, n |-> 2 * Cutoff(bits) - 1]
           ELSE [err |-> "", n |-> n]

\* strconv.ParseInt(s, 10, bits): [err, n], err = "" on success
ParseInt(s, bits) ==
  IF Len(s) = 0 THEN [err |-> ErrSyntax, n |-> 0]
  ELSE
    LET neg == s[1] = "-"
        rest == IF s[1] \in {"+", "-"} THEN Tail(s) ELSE s
    IN  IF Len(rest) = 0 \/ ~AllDigits(rest) THEN [err |-> ErrSyntax, n |-> 0]
        ELSE
          LET un == DigitsValue(rest)
              cut == Cutoff(bits)
          IN  IF cut > 0 /\ ~neg /\ un >= cut
              THEN [err |-> ErrRange, n |-> cut - 1]
              ELSE IF cut > 0 /\ neg /\ un > cut
              THEN [err |-> ErrRange, n |-> 0 - cut]
              ELSE [err |-> "", n |-> IF neg THEN 0 - un ELSE un]

\* position of the decimal point in s, 0 if there is none
DotAt(s) ==
  IF \E i \in 1..Len(s) : s[i] = "."
  THEN CHOOSE i \in 1..Len(s) : s[i] = "." /\ \A j \in 1..(i - 1) : s[j] # "."
  ELSE 0

\* strconv.ParseFloat(s, 64) for plain decimal text [+-]digits[.digits]:
\* [err, n] with n in tenths (exponents, hex floats, inf and nan are text
\* the model never scans)
ParseFloat(s) ==
  IF Len(s) = 0 THEN [err |-> ErrSyntax, n |-> 0]
  ELSE
    LET neg == s[1] = "-"
        rest == IF s[1] \in {"+", "-"} THEN Tail(s) ELSE s
        dot == DotAt(rest)
        ip == IF dot = 0 THEN rest ELSE SubSeq(rest, 1, dot - 1)
        fp == IF dot = 0 THEN <<>> ELSE SubSeq(rest, dot + 1, Len(rest))
    IN  IF Len(ip) + Len(fp) = 0 \/ ~AllDigits(ip) \/ ~AllDigits(fp)
        THEN [err |-> ErrSyntax, n |-> 0]
        ELSE
          LET mag == DigitsValue(ip) * 10
                     + (IF Len(fp) = 0 THEN 0 ELSE DigitOf(fp[1]))
          IN  [err |-> "", n |-> IF neg THEN 0 - mag ELSE mag]

\* strconv.ParseBool: [err, b]
ParseBool(s) ==
  IF s \in {<<"1">>, <<"t">>, <<"T">>, <<"T", "R", "U", "E">>,
            <<"t", "r", "u", "e">>, <<"T", "r", "u", "e">>}
  THEN [err |-> "", b |-> TRUE]
  ELSE IF s \in {<<"0">>, <<"f">>, <<"F">>, <<"F", "A", "L", "S", "E">>,
                 <<"f", "a", "l", "s", "e">>, <<"F", "a", "l", "s", "e">>}
  THEN [err |-> "", b |-> FALSE]
  ELSE [err |-> ErrSyntax, b |-> FALSE]

(***************************************************************************)
(* time.Time and fmt renderings.                                           *)
(***************************************************************************)
\* time.Time.Format(time.RFC3339Nano) of the two instants of the model
FormatRFC3339Nano(i) ==
  IF i = 0
  THEN <<"0", "0", "0", "1", "-", "0", "1", "-", "0", "1", "T", "0", "0", ":", "0", "0", ":", "0", "0", "Z">>
  ELSE <<"2", "0", "2", "4", "-", "0", "1", "-", "0", "2", "T", "0", "3", ":", "0", "4", ":", "0", "5", "Z">>

\* time.Time.String(), which fmt's %v uses
TimeString(i) ==
  IF i = 0
  THEN <<"0", "0", "0", "1", "-", "0", "1", "-", "0", "1", " ", "0", "0", ":", "0", "0", ":", "0", "0", " ", "+", "0", "0", "0", "0", " ", "U", "T", "C">>
  ELSE <<"2", "0", "2", "4", "-", "0", "1", "-", "0", "2", " ", "0", "3", ":", "0", "4", ":", "0", "5", " ", "+", "0", "0", "0", "0", " ", "U", "T", "C">>

\* fmt.Sprintf("%v", v) for the values asString does not format itself
SprintV(v) ==
  CASE v.k = "nil" -> <<"<", "n", "i", "l", ">">>
    [] v.k = "time.Time" -> TimeString(v.n)
    [] v.k \in {"opt_test.TestStruct1", "opt_test.TestStruct2"} ->
         <<"{">> \o v.s \o <<"}">>
    [] v.k = "float64" -> FormatFloat(v.n)
    [] v.k = "bool" -> FormatBool(v.n = 1)
    [] v.k = "string" -> v.s
    [] OTHER -> FormatInt(v.n)

(***************************************************************************)
(* Errors: the message template and what fills it, so that two errors are  *)
(* equal exactly when their messages are.                                  *)
(***************************************************************************)
Err(kind, srcT, q, dest, cause) ==
  [kind |-> kind, srcT |-> srcT, q |-> q, dest |-> dest, cause |-> cause]

\* the nil error
NoErr == Err("nil", "", <<>>, "", "")

\* "converting driver.Value type %T (%q) to a %s: %v"
ErrConverting(src, s, kind, cause) ==
  Err("converting driver.Value type %T (%q) to a %s: %v", src.k, s, kind, cause)

\* "unsupported Scan, storing driver.Value type %T into type %T"
ErrUnsupportedScan(src, T) ==
  Err("unsupported Scan, storing driver.Value type %T into type %T",
      src.k, <<>>, "*" \o T, "")

\* "converting NULL to %s is unsupported"
ErrConvertingNull(kind) ==
  Err("converting NULL to %s is unsupported", "", <<>>, kind, "")

(***************************************************************************)
(* The coercion engine's helpers.                                          *)
(***************************************************************************)
\* asString: the canonical string form of a driver value
asString(src) ==
  CASE src.k = "string" -> src.s
    [] src.k = "[]uint8" -> src.s
    [] IsIntKind(KindOf(src.k)) -> FormatInt(src.n)
    [] IsUintKind(KindOf(src.k)) -> FormatUint(src.n)
    [] KindOf(src.k) = "float64" -> FormatFloat(src.n)
    [] KindOf(src.k) = "bool" -> FormatBool(src.n = 1)
    [] OTHER -> SprintV(src)

\* asBytes(nil, rv): [ok, b]
asBytes(src) ==
  CASE IsIntKind(KindOf(src.k)) -> [ok |-> TRUE, b |-> BytesV(FormatInt(src.n))]
    [] IsUintKind(KindOf(src.k)) -> [ok |-> TRUE, b |-> BytesV(FormatUint(src.n))]
    [] KindOf(src.k) = "float64" -> [ok |-> TRUE, b |-> BytesV(FormatFloat(src.n))]
    [] KindOf(src.k) = "bool" -> [ok |-> TRUE, b |-> BytesV(FormatBool(src.n = 1))]
    [] KindOf(src.k) = "string" ->
         [ok |-> TRUE, b |-> Val("[]uint8", IF Len(src.s) = 0 THEN 0 ELSE 1, src.s)]
    [] OTHER -> [ok |-> FALSE, b |-> NilBytes]

\* the *strconv.NumError the strconv parsers fail with
NumError(fn, num, cause) == [Func |-> fn, Num |-> num, Err |-> cause]

\* strconvErr that keeps the *strconv.NumError's own message
strconvErrKeep(ne) == "strconv." \o ne.Func \o ": parsing: " \o ne.Err

\* strconvErr: the cause inside a *strconv.NumError
strconvErr(ne) == ne.Err

\* no copy: the slice itself, over the same array
bytesAlias(b) == b

\* bytes.Clone: nil stays nil, anything else is a fresh non-nil slice
bytesClone(b) == IF b.n = 0 THEN NilBytes ELSE BytesV(b.s)

\* driver.Bool.ConvertValue, the database collaborator's boolean
\* normalization: [v, err]
BoolConvertValue(src) ==
  CASE src.k = "bool" -> [v |-> src, err |-> NoErr]
    [] src.k \in {"string", "[]uint8"} ->
         LET r == ParseBool(src.s)
         IN  IF r.err = "" THEN [v |-> BoolV(r.b), err |-> NoErr]
             ELSE [v |-> Nil,
                   err |-> Err("sql/driver: couldn't convert %q into type bool",
                               "", src.s, "", "")]
    [] IsIntKind(KindOf(src.k)) \/ IsUintKind(KindOf(src.k)) ->
         IF src.n \in {0, 1} THEN [v |-> BoolV(src.n = 1), err |-> NoErr]
         ELSE [v |-> Nil,
               err |-> Err("sql/driver: couldn't convert %d into type bool",
                           "", FormatInt(src.n), "", "")]
    [] OTHER ->
         [v |-> Nil,
          err |-> Err("sql/driver: couldn't convert %v (%T) into type bool",
                      src.k, SprintV(src), "", "")]

(***************************************************************************)
(* The reference nullable types of database/sql, which the sql.Scanner     *)
(* tests scan side by side with the option.                                *)
(***************************************************************************)
\* the X for which database/sql has a NullX the tests compare against
NullTypes == {"int64", "float64", "string", "bool"}

\* database/sql's string form of a driver value
sqlString(src) ==
  CASE src.k \in {"string", "[]uint8"} -> src.s
    [] src.k = "int64" -> FormatInt(src.n)
    [] src.k = "float64" -> FormatFloat(src.n)
    [] src.k = "bool" -> FormatBool(src.n = 1)
    [] src.k = "time.Time" -> TimeString(src.n)

\* database/sql's convertAssign(&x, src) for a zero x of type X in NullTypes
\* and a non-nil driver value: [V, err]
convertAssign(X, src) ==
  LET s == sqlString(src)
      fails(cause) ==
        [V |-> Zero(X),
         err |-> [kind |-> "converting driver.Value type %T (%q) to a %s: %v",
                  srcT |-> src.k, q |-> s, dest |-> X, cause |-> cause]]
  IN  CASE X = "int64" ->
             IF src.k = "int64" THEN [V |-> src, err |-> NoErr]
             ELSE LET r == ParseInt(s, 64)
                  IN  IF r.err = "" THEN [V |-> IntV(r.n), err |-> NoErr]
                      ELSE fails(r.err)
        [] X = "float64" ->
             IF src.k = "float64" THEN [V |-> src, err |-> NoErr]
             ELSE LET r == ParseFloat(s)
                  IN  IF r.err = "" THEN [V |-> FloatV(r.n), err |-> NoErr]
                      ELSE fails(r.err)
        [] X = "string" ->
             IF src.k = "time.Time"
             THEN [V |-> StrV(FormatRFC3339Nano(src.n)), err |-> NoErr]
             ELSE [V |-> StrV(s), err |-> NoErr]
        [] X = "bool" ->
             LET r == BoolConvertValue(src)
             IN  IF r.err = NoErr THEN [V |-> r.v, err |-> NoErr]
                 ELSE [V |-> Zero(X), err |-> r.err]

\* (*sql.NullX).Scan(src) on a fresh NullX: its Valid, its value field and
\* the error returned
NullScan(X, src) ==
  IF src = Nil THEN [Valid |-> FALSE, V |-> Zero(X), err |-> NoErr]
  ELSE LET r == convertAssign(X, src)
       IN  [Valid |-> TRUE, V |-> r.V, err |-> r.err]

\* (*sql.NullInt64).Scan(src) on a NullInt64 holding cur
NullInt64Scan(cur, src) ==
  LET r == NullScan("int64", src)
  IN  [V |-> NullInt64V(IF r.err = NoErr THEN r.V.n ELSE cur.n, r.Valid),
       err |-> r.err, eng |-> <<>>]

\* the types whose pointer implements sql.Scanner
IsScanner(T) ==
  T \in {"opt_test.TestStruct2", "sql.NullInt64", "opt.Option[int64]"}

\* (*TestStruct2).Scan: keeps text, and fails whatever it was given
TestStruct2Scan(cur, src) ==
  [V |-> IF src.k \in {"string", "[]uint8"} THEN Struct2V(src.s) ELSE cur,
   err |-> Err("scan failed", "", <<>>, "", ""), eng |-> <<>>]

\* the element of a set of one element; {e(r) : r \in {x}} works x out once
\* for all its uses in e
Only(S) == CHOOSE x \in S : TRUE

\* Option.Scan is the Scan method of a destination that is an option
RECURSIVE Scan(_, _)

\* an Option[int64]{V: n, Valid: valid} held as the V of another option
OptionInt64V(n, valid) ==
  Val("opt.Option[int64]", n, IF valid THEN <<"V">> ELSE <<>>)

\* (*Option[int64]).Scan(src) on an Option[int64] held as cur
OptionInt64Scan(cur, src) ==
  Only({[V |-> OptionInt64V(r.o.V.n, r.o.Valid), err |-> r.err,
         eng |-> r.eng] :
          r \in {Scan([T |-> "int64", Valid |-> cur.s # <<>>,
                       V |-> IntV(cur.n)], src)}})

\* scanner.Scan(src) for the destination's own Scan method: [V, err, eng],
\* eng being the calls of scanAssign made inside it
scannerScan(T, cur, src) ==
  IF T = "sql.NullInt64" THEN NullInt64Scan(cur, src)
  ELSE IF T = "opt.Option[int64]" THEN OptionInt64Scan(cur, src)
  ELSE TestStruct2Scan(cur, src)

\* reflect.Type.AssignableTo between a driver value's type and T
AssignableTo(S, T) ==
  S = T \/ T = "interface {}" \/ (S = "[]uint8" /\ T = "json.RawMessage")

\* dv.Set(v): v as a value of the destination's type T, an interface
\* destination keeping v's own type
SetAs(T, v) == IF KindOf(T) = "interface" THEN v ELSE Val(T, v.n, v.s)

\* reflect.Type.ConvertibleTo for two types of the same kind: identical
\* types, and string to a type whose underlying type is string; distinct
\* struct types do not convert
ConvertibleTo(S, T) == S = T \/ (S = "string" /\ T = NamedString)

(***************************************************************************)
(* scanAssign(dest, src) with dest = &o.V of an Option[T]: cur is what the *)
(* slot holds on entry; the result is what it holds on return and the      *)
(* error returned.                                                         *)
(***************************************************************************)
\* one call of scanAssign: the type of the pointer handed in as dest,
\* whether that pointer is nil, and the source
Invocation(T, nildest, src) ==
  [dest |-> "*" \o T, nildest |-> nildest, src |-> src]

\* what stands for the slot behind a nil destination pointer: there is none
NoTarget == Val("no target", 0, <<>>)

\* errors.New("destination not a pointer")
ErrDestNotPointer == Err("destination not a pointer", "", <<>>, "", "")

\* errors.New("destination pointer is nil")
ErrDestNil == Err("destination pointer is nil", "", <<>>, "", "")

\* the slot written with v, no error
Stored(v) == [V |-> v, err |-> NoErr, calls |-> <<>>, alloc |-> <<>>, eng |-> <<>>]

\* the slot left as it was, error e
Failed(cur, e) == [V |-> cur, err |-> e, calls |-> <<>>, alloc |-> <<>>, eng |-> <<>>]

\* scanAssign calls itself for the target of a pointer destination
RECURSIVE scanAssign(_, _, _)

\* a *bool destination filled by parsing the source's string form, the way
\* the numeric kinds are
scanBoolViaString(cur, src) ==
  LET s == asString(src)
      r == ParseBool(s)
  IN  IF r.err = "" THEN Stored(BoolV(r.b))
      ELSE Failed(cur, ErrConverting(src, s, "bool", r.err))

\* case *bool: the collaborator's normalization decides, and its error is
\* returned as it is
scanBool(cur, src) ==
  LET r == BoolConvertValue(src)
  IN  [V |-> IF r.err = NoErr THEN r.v ELSE cur, err |-> r.err,
       calls |-> <<>>, alloc |-> <<>>, eng |-> <<>>]

\* v once a cell is put in front of the cells it points into
Shifted(v) ==
  IF KindOf(v.k) = "ptr" /\ v.n # 0 THEN [v EXCEPT !.n = v.n + 1] ELSE v

\* a pointer destination that is set back to nil when the recursion fails
scanPointerNilOnError(T, src) ==
  IF src = Nil THEN Stored(Zero(T))
  ELSE LET r == scanAssign(Elem(T), Zero(Elem(T)), src)
       IN  IF r.err = NoErr
           THEN [V |-> PtrV(Elem(T), 1), err |-> r.err, calls |-> r.calls,
                 alloc |-> <<r.V>>,
            eng |-> <<Invocation(Elem(T), FALSE, src)>> \o r.eng]
           ELSE [V |-> Zero(T), err |-> r.err, calls |-> r.calls,
                 alloc |-> <<>>,
                 eng |-> <<Invocation(Elem(T), FALSE, src)>> \o r.eng]

\* a pointer destination that is left nil and handed to the recursion as it
\* is
scanPointerNoAlloc(T, src) ==
  IF src = Nil THEN Stored(Zero(T))
  ELSE LET r == scanAssign(Elem(T), NoTarget, src)
       IN  [V |-> Zero(T), err |-> r.err, calls |-> r.calls, alloc |-> <<>>,
            eng |-> <<Invocation(Elem(T), TRUE, src)>> \o r.eng]

\* a pointer destination whose target is filled from the source's string
\* form
scanPointerViaString(T, src) ==
  IF src = Nil THEN Stored(Zero(T))
  ELSE LET r == scanAssign(Elem(T), Zero(Elem(T)), StrV(asString(src)))
       IN  [V |-> PtrV(Elem(T), 1), err |-> r.err, calls |-> r.calls,
            alloc |-> <<Shifted(r.V)>>
                        \o [i \in 1..Len(r.alloc) |-> Shifted(r.alloc[i])],
            eng |-> <<Invocation(Elem(T), FALSE, StrV(asString(src)))>>
                      \o r.eng]

\* case reflect.Pointer: a nil source sets the pointer to nil; otherwise a
\* new target is allocated, the pointer is set to it and the source is
\* scanned into the target. V points at the first cell of alloc
scanPointer(T, src) ==
  IF src = Nil THEN Stored(Zero(T))
  ELSE Only({[V |-> PtrV(Elem(T), 1), err |-> r.err, calls |-> r.calls,
              alloc |-> <<Shifted(r.V)>>
                          \o [i \in 1..Len(r.alloc) |-> Shifted(r.alloc[i])],
              eng |-> <<Invocation(Elem(T), FALSE, src)>> \o r.eng] :
               r \in {scanAssign(Elem(T), Zero(Elem(T)), src)}})

\* the rules of switch dv.Kind(): a pointer destination, and the numeric
\* and string rules that go through a string
scanViaString(T, cur, src) ==
  LET kind == KindOf(T)
      s == asString(src)
  IN  CASE kind = "ptr" -> scanPointer(T, src)
        [] IsIntKind(kind) ->
             IF src = Nil THEN Failed(cur, ErrConvertingNull(kind))
             ELSE LET r == ParseInt(s, BitsOf(T))
                  IN  IF r.err # ""
                      THEN Failed(cur, ErrConverting(src, s, kind,
                                    strconvErr(NumError("ParseInt", s, r.err))))
                      ELSE Stored(Val(T, r.n, <<>>))
        [] IsUintKind(kind) ->
             IF src = Nil THEN Failed(cur, ErrConvertingNull(kind))
             ELSE LET r == ParseUint(s, BitsOf(T))
                  IN  IF r.err # ""
                      THEN Failed(cur, ErrConverting(src, s, kind,
                                    strconvErr(NumError("ParseUint", s, r.err))))
                      ELSE Stored(Val(T, r.n, <<>>))
        [] IsFloatKind(kind) ->
             IF src = Nil THEN Failed(cur, ErrConvertingNull(kind))
             ELSE LET r == ParseFloat(s)
                  IN  IF r.err # ""
                      THEN Failed(cur, ErrConverting(src, s, kind,
                                    strconvErr(NumError("ParseFloat", s, r.err))))
                      ELSE Stored(Val(T, r.n, <<>>))
        [] kind = "string" ->
             IF src = Nil THEN Failed(cur, ErrConvertingNull(kind))
             ELSE IF src.k \in {"string", "[]uint8"} THEN Stored(Val(T, 0, src.s))
             ELSE Failed(cur, ErrUnsupportedScan(src, T))
        [] OTHER -> Failed(cur, ErrUnsupportedScan(src, T))

\* the reflective part with the conversion rule asking for equal kinds only
scanReflectKindOnly(T, cur, src) ==
  IF KindOf("*" \o T) # "ptr" THEN Failed(cur, ErrDestNotPointer)
  ELSE IF cur = NoTarget THEN Failed(cur, ErrDestNil)
  ELSE IF src # Nil /\ AssignableTo(src.k, T)
  THEN IF src.k = "[]uint8" THEN Stored(SetAs(T, bytesClone(src)))
       ELSE Stored(SetAs(T, src))
  ELSE IF KindOf(T) = KindOf(src.k)
  THEN Stored(Val(T, src.n, src.s))
  ELSE scanViaString(T, cur, src)

\* the reflective part of scanAssign, from dpv := reflect.ValueOf(dest) on
scanReflect(T, cur, src) ==
  IF KindOf("*" \o T) # "ptr" THEN Failed(cur, ErrDestNotPointer)
  ELSE IF cur = NoTarget THEN Failed(cur, ErrDestNil)
  ELSE IF src # Nil /\ AssignableTo(src.k, T)
  THEN IF src.k = "[]uint8" THEN Stored(SetAs(T, bytesClone(src)))
       ELSE Stored(SetAs(T, src))
  ELSE IF KindOf(T) = KindOf(src.k) /\ ConvertibleTo(src.k, T)
  THEN Stored(Val(T, src.n, src.s))
  ELSE scanViaString(T, cur, src)

\* scanAssign that goes on to the reflective rules when the destination's
\* own Scan fails
scanAssignFallback(T, cur, src) ==
  IF IsScanner(T) /\ scannerScan(T, cur, src).err = NoErr
  THEN LET r == scannerScan(T, cur, src)
       IN  [V |-> r.V, err |-> r.err, calls |-> <<src>>, alloc |-> <<>>,
                   eng |-> r.eng]
  ELSE LET r == scanReflect(T, cur, src)
       IN  [V |-> r.V, err |-> r.err,
            calls |-> IF IsScanner(T) THEN <<src>> ELSE <<>>,
            alloc |-> r.alloc, eng |-> r.eng]

\* scanAssign(&slot, src) for a slot of type T holding cur: [V, err, calls],
\* calls being the sources handed to the destination's own Scan
scanAssign(T, cur, src) ==
  CASE src.k = "string" /\ T = "string" -> Stored(src)
    [] src.k = "string" /\ T = "[]uint8" -> Stored(BytesV(src.s))
    [] src.k = "[]uint8" /\ T = "string" -> Stored(StrV(src.s))
    [] src.k = "[]uint8" /\ T = "interface {}" -> Stored(bytesClone(src))
    [] src.k = "[]uint8" /\ T = "[]uint8" -> Stored(bytesClone(src))
    [] src.k = "time.Time" /\ T = "time.Time" -> Stored(src)
    [] src.k = "time.Time" /\ T = "string" ->
         Stored(StrV(FormatRFC3339Nano(src.n)))
    [] src.k = "time.Time" /\ T = "[]uint8" ->
         Stored(BytesV(FormatRFC3339Nano(src.n)))
    [] OTHER ->
         IF T = "string"
            /\ (KindOf(src.k) = "bool" \/ IsIntKind(KindOf(src.k))
                \/ IsUintKind(KindOf(src.k)) \/ IsFloatKind(KindOf(src.k)))
         THEN Stored(StrV(asString(src)))
         ELSE IF T = "[]uint8" /\ asBytes(src).ok THEN Stored(asBytes(src).b)
         ELSE IF T = "bool" THEN scanBool(cur, src)
         ELSE IF T = "interface {}" THEN Stored(src)
         ELSE IF IsScanner(T)
         THEN Only({[V |-> r.V, err |-> r.err, calls |-> <<src>>,
                     alloc |-> <<>>, eng |-> r.eng] :
                      r \in {scannerScan(T, cur, src)}})
         ELSE scanReflect(T, cur, src)

(***************************************************************************)
(* The database collaborator's parameter converter.                        *)
(***************************************************************************)
\* driver.IsValue: the closed set of wire-level kinds
IsValue(v) ==
  v.k \in {"nil", "[]uint8", "bool", "float64", "int64", "string", "time.Time"}

\* the types that implement driver.Valuer
IsValuer(T) == T = "opt_test.TestStruct2"

\* "unsupported type %T, a %s"
ErrUnsupportedType(v) ==
  Err("unsupported type %T, a %s", v.k, <<>>, KindOf(v.k), "")

\* driver.DefaultParameterConverter.ConvertValue of a non-pointer value:
\* [v, err]
ConvertValue(v) ==
  CASE IsValue(v) -> [v |-> v, err |-> NoErr]
    [] IsValuer(v.k) -> [v |-> StrV(v.s), err |-> NoErr]
    [] IsIntKind(KindOf(v.k)) \/ IsUintKind(KindOf(v.k)) ->
         [v |-> IntV(v.n), err |-> NoErr]
    [] OTHER -> [v |-> Nil, err |-> ErrUnsupportedType(v)]

\* ConvertValue of a *T pointing at cell a of heap h (a = 0: the nil
\* pointer): nil for nil, otherwise the pointee converted
ConvertValuePtr(h, a) ==
  IF a = 0 THEN [v |-> Nil, err |-> NoErr] ELSE ConvertValue(h[a])

(***************************************************************************)
(* The structured-text (JSON) encoder.                                     *)
(***************************************************************************)
JSONNull == <<"n", "u", "l", "l">>

Quoted(s) == <<"\"">> \o s \o <<"\"">>

\* the printable ASCII characters, code 32 first (code 96 by its name)
ASCII ==
  <<" ", "!", "\"", "#", "$", "%", "&", "'", "(", ")", "*", "+", ",", "-",
    ".", "/", "0", "1", "2", "3", "4", "5", "6", "7", "8", "9", ":", ";",
    "<", "=", ">", "?", "@", "A", "B", "C", "D", "E", "F", "G", "H", "I",
    "J", "K", "L", "M", "N", "O", "P", "Q", "R", "S", "T", "U", "V", "W",
    "X", "Y", "Z", "[", "\\", "]", "^", "_", "grave", "a", "b", "c", "d", "e",
    "f", "g", "h", "i", "j", "k", "l", "m", "n", "o", "p", "q", "r", "s",
    "t", "u", "v", "w", "x", "y", "z", "{", "|", "}", "~">>

\* the byte a character stands for
Code(c) == (CHOOSE i \in 1..Len(ASCII) : ASCII[i] = c) + 31

\* the character of a byte (the texts of the model stay printable)
Chr(n) == IF n >= 32 /\ n - 31 <= Len(ASCII) THEN ASCII[n - 31] ELSE "?"

\* the base64 alphabet, value 0 first
B64Chars ==
  <<"A", "B", "C", "D", "E", "F", "G", "H", "I", "J", "K", "L", "M", "N",
    "O", "P", "Q", "R", "S", "T", "U", "V", "W", "X", "Y", "Z", "a", "b",
    "c", "d", "e", "f", "g", "h", "i", "j", "k", "l", "m", "n", "o", "p",
    "q", "r", "s", "t", "u", "v", "w", "x", "y", "z", "0", "1", "2", "3",
    "4", "5", "6", "7", "8", "9", "+", "/">>

IsB64Char(c) == \E i \in 1..Len(B64Chars) : B64Chars[i] = c

B64Value(c) == (CHOOSE i \in 1..Len(B64Chars) : B64Chars[i] = c) - 1

\* base64.StdEncoding.EncodeToString
RECURSIVE Base64(_)
Base64(s) ==
  IF Len(s) = 0 THEN <<>>
  ELSE
    LET b1 == Code(s[1])
        b2 == IF Len(s) >= 2 THEN Code(s[2]) ELSE 0
        b3 == IF Len(s) >= 3 THEN Code(s[3]) ELSE 0
        c1 == B64Chars[(b1 \div 4) + 1]
        c2 == B64Chars[((b1 % 4) * 16 + (b2 \div 16)) + 1]
        c3 == B64Chars[((b2 % 16) * 4 + (b3 \div 64)) + 1]
        c4 == B64Chars[(b3 % 64) + 1]
    IN  IF Len(s) = 1 THEN <<c1, c2, "=", "=">>
        ELSE IF Len(s) = 2 THEN <<c1, c2, c3, "=">>
        ELSE <<c1, c2, c3, c4>> \o Base64(SubSeq(s, 4, Len(s)))

\* whether text is a JSON value, for the texts of the model: a literal, an
\* integer or decimal number, a string without escapes, or an object with
\* at most the member "V"
IsJSONNumber(s) ==
  /\ Len(s) > 0
  /\ LET rest == IF s[1] = "-" THEN Tail(s) ELSE s
         dot == DotAt(rest)
         ip == IF dot = 0 THEN rest ELSE SubSeq(rest, 1, dot - 1)
         fp == IF dot = 0 THEN <<"0">> ELSE SubSeq(rest, dot + 1, Len(rest))
     IN  /\ Len(ip) > 0 /\ AllDigits(ip)
         /\ (Len(ip) = 1 \/ ip[1] # "0")
         /\ Len(fp) > 0 /\ AllDigits(fp)

IsJSONString(s) ==
  /\ Len(s) >= 2 /\ s[1] = "\"" /\ s[Len(s)] = "\""
  /\ \A i \in 2..(Len(s) - 1) : s[i] \notin {"\"", "\\"}

ObjectV(s) == <<"{", "\"", "V", "\"", ":">> \o Quoted(s) \o <<"}">>

\* the kind of JSON value a text is, "invalid" if it is none
JSONKind(s) ==
  CASE s = JSONNull -> "null"
    [] s \in {FormatBool(TRUE), FormatBool(FALSE)} -> "bool"
    [] IsJSONNumber(s) -> "number"
    [] IsJSONString(s) -> "string"
    [] s = <<"{", "}">> -> "object"
    [] Len(s) > 9 /\ IsJSONString(SubSeq(s, 6, Len(s) - 1))
       /\ s = ObjectV(SubSeq(s, 7, Len(s) - 2)) -> "object"
    [] OTHER -> "invalid"

\* the *json.SyntaxError for text that is no JSON value
ErrJSONSyntax(s) == Err("json: syntax error", "", s, "", "")

\* json.Marshal(v): [b, err]
jsonMarshal(v) ==
  CASE v.k = "nil" -> [b |-> JSONNull, err |-> NoErr]
    [] v.k = "bool" -> [b |-> FormatBool(v.n = 1), err |-> NoErr]
    [] v.k = "string" -> [b |-> Quoted(v.s), err |-> NoErr]
    [] v.k = "float64" -> [b |-> FormatFloat(v.n), err |-> NoErr]
    [] v.k = "[]uint8" ->
         [b |-> IF v.n = 0 THEN JSONNull ELSE Quoted(Base64(v.s)), err |-> NoErr]
    [] v.k = "time.Time" -> [b |-> Quoted(FormatRFC3339Nano(v.n)), err |-> NoErr]
    [] v.k = "opt_test.TestStruct1" -> [b |-> ObjectV(v.s), err |-> NoErr]
    [] v.k = "opt_test.TestStruct2" ->
         \* TestStruct2.MarshalJSON returns V as it is; the encoder rejects
         \* what is no JSON value
         IF JSONKind(v.s) = "invalid"
         THEN [b |-> <<>>,
               err |-> Err("json: error calling MarshalJSON for type %s: %v",
                           v.k, v.s, "", "")]
         ELSE [b |-> v.s, err |-> NoErr]
    [] OTHER -> [b |-> FormatInt(v.n), err |-> NoErr]

\* json.Marshal of a *T pointing at cell a of heap h (a = 0: nil)
jsonMarshalPtr(h, a) ==
  IF a = 0 THEN [b |-> JSONNull, err |-> NoErr]
  ELSE LET r == jsonMarshal(h[a])
       IN  IF r.err = NoErr THEN r
           ELSE [b |-> <<>>, err |-> [r.err EXCEPT !.srcT = "*" \o r.err.srcT]]

(***************************************************************************)
(* The structured-text (JSON) decoder.                                     *)
(***************************************************************************)
\* "json: cannot unmarshal %s into Go value of type %s"
ErrUnmarshalType(what, T) ==
  Err("json: cannot unmarshal %s into Go value of type %s", what.k, what.s, T, "")

\* the text between the quotes of a JSON string
Unquoted(s) == SubSeq(s, 2, Len(s) - 1)

\* the bytes of well-formed base64 text without its padding
RECURSIVE B64Bytes(_)
B64Bytes(s) ==
  IF Len(s) < 2 THEN <<>>
  ELSE
    LET v1 == B64Value(s[1])
        v2 == B64Value(s[2])
        v3 == IF Len(s) >= 3 THEN B64Value(s[3]) ELSE 0
        v4 == IF Len(s) >= 4 THEN B64Value(s[4]) ELSE 0
        b1 == Chr(v1 * 4 + (v2 \div 16))
        b2 == Chr((v2 % 16) * 16 + (v3 \div 4))
        b3 == Chr((v3 % 4) * 64 + v4)
    IN  IF Len(s) = 2 THEN <<b1>>
        ELSE IF Len(s) = 3 THEN <<b1, b2>>
        ELSE <<b1, b2, b3>> \o B64Bytes(SubSeq(s, 5, Len(s)))

\* base64.StdEncoding.DecodeString: [ok, s]; the text must come in groups
\* of four characters of the alphabet, the last group padded with "="
Base64Decode(s) ==
  LET pad == IF Len(s) >= 2 /\ s[Len(s)] = "=" /\ s[Len(s) - 1] = "=" THEN 2
             ELSE IF Len(s) >= 1 /\ s[Len(s)] = "=" THEN 1 ELSE 0
      body == SubSeq(s, 1, Len(s) - pad)
  IN  IF Len(s) % 4 = 0 /\ (\A i \in 1..Len(body) : IsB64Char(body[i]))
         /\ (pad = 0 \/ Len(body) > 0)
      THEN [ok |-> TRUE, s |-> B64Bytes(body)]
      ELSE [ok |-> FALSE, s |-> <<>>]

\* the JSON texts handed to UnmarshalJSON: the cases of the json.Unmarshaler
\* tests, a boolean and an object with a member
JSONInputs ==
  {<<>>, JSONNull, <<"n", "i", "l">>, <<"{", "}">>, Quoted(<<>>),
   Quoted(<<"a", "b", "c">>), Quoted(<<"1", "2", "3">>), <<"0">>,
   <<"1", "2", "3">>, <<"-", "1", "2", "3">>, FormatBool(TRUE),
   ObjectV(Hello)}

\* json.Unmarshal(data, &V) for a slot of type T holding cur: [V, err]
jsonUnmarshal(T, cur, data) ==
  LET kind == JSONKind(data)
      mismatch == Failed(cur, ErrUnmarshalType(Val(kind, 0, <<>>), T))
  IN
  CASE kind = "invalid" -> Failed(cur, ErrJSONSyntax(data))
    [] kind # "invalid" /\ T = "opt_test.TestStruct2" -> Stored(Struct2V(data))
    [] kind # "invalid" /\ T = "time.Time" ->
         IF kind = "null" THEN Stored(cur)
         ELSE IF \E i \in {0, 1} : data = Quoted(FormatRFC3339Nano(i))
         THEN Stored(TimeV(CHOOSE i \in {0, 1} : data = Quoted(FormatRFC3339Nano(i))))
         ELSE Failed(cur, Err("Time.UnmarshalJSON", "", data, "", ""))
    [] OTHER ->
         CASE kind = "null" ->
                Stored(IF T \in {"interface {}", "[]uint8"} THEN Zero(T) ELSE cur)
           [] kind = "bool" ->
                IF T \in {"bool", "interface {}"}
                THEN Stored(BoolV(data = FormatBool(TRUE)))
                ELSE mismatch
           [] kind = "string" ->
                IF T \in {"string", "interface {}"} THEN Stored(StrV(Unquoted(data)))
                ELSE IF T = "[]uint8"
                THEN LET r == Base64Decode(Unquoted(data))
                     IN  IF r.ok THEN Stored(BytesV(r.s))
                         ELSE Failed(cur, Err("illegal base64 data", "", data, "", ""))
                ELSE mismatch
           [] kind = "number" ->
                IF IsIntKind(KindOf(T))
                THEN LET r == ParseInt(data, BitsOf(T))
                     IN  IF r.err = "" THEN Stored(Val(T, r.n, <<>>))
                         ELSE Failed(cur, ErrUnmarshalType(Val("number", 0, data), T))
                ELSE IF IsUintKind(KindOf(T))
                THEN LET r == ParseUint(data, BitsOf(T))
                     IN  IF r.err = "" THEN Stored(Val(T, r.n, <<>>))
                         ELSE Failed(cur, ErrUnmarshalType(Val("number", 0, data), T))
                ELSE IF T \in {"float64", "interface {}"}
                THEN Stored(FloatV(ParseFloat(data).n))
                ELSE mismatch
           [] kind = "object" ->
                IF T = "opt_test.TestStruct1"
                THEN Stored(IF data = <<"{", "}">> THEN cur
                            ELSE Struct1V(SubSeq(data, 7, Len(data) - 2)))
                ELSE IF T = "interface {}"
                THEN Stored(Val("map[string]interface {}",
                                IF data = <<"{", "}">> THEN 1 ELSE 2,
                                IF data = <<"{", "}">> THEN <<>>
                                ELSE SubSeq(data, 7, Len(data) - 2)))
                ELSE mismatch

(***************************************************************************)
(* Option[T].  An option value is [T, Valid, V].  The option variable of   *)
(* the model keeps its V in heap cell o.slot, so that pointers into the    *)
(* heap and the option's own storage can be told apart.                    *)
(***************************************************************************)
Opt(T, valid, v) == [T |-> T, Valid |-> valid, V |-> v]

\* the option variable as a value
Cur == Opt(o.T, o.Valid, heap[o.slot])

\* New that marks the option present
NewPresent(T) == Opt(T, TRUE, Zero(T))

\* New[T]()
New(T) == Opt(T, FALSE, Zero(T))

\* From that takes the zero value for absence
FromZeroAbsent(T, v) == Opt(T, v # Zero(T), v)

\* From(v)
From(T, v) == Opt(T, TRUE, v)

\* FromPtr(v) for the pointer a into heap h (a = 0: nil)
FromPtr(T, h, a) == IF a = 0 THEN Opt(T, FALSE, Zero(T)) ELSE Opt(T, TRUE, h[a])

\* o.IsNull()
IsNull(opt) == ~opt.Valid

\* reflect.Value.IsZero of reflect.ValueOf(v), v not the nil interface
reflectIsZero(v) ==
  LET kind == KindOf(v.k)
  IN  CASE IsIntKind(kind) \/ IsUintKind(kind) \/ IsFloatKind(kind) -> v.n = 0
        [] kind = "bool" -> v.n = 0
        [] kind = "string" -> Len(v.s) = 0
        [] kind \in {"slice", "map", "ptr"} -> v.n = 0
        [] kind = "struct" -> v.n = 0 /\ Len(v.s) = 0

\* NullOrZero without the test for the nil interface: IsZero alone, taken
\* as false where reflect has no value to look at
NullOrZeroNoInvalid(opt) ==
  ~opt.Valid \/ (KindOf(opt.V.k) # "invalid" /\ reflectIsZero(opt.V))

\* o.NullOrZero()
NullOrZero(opt) ==
  ~opt.Valid \/ KindOf(opt.V.k) = "invalid" \/ reflectIsZero(opt.V)

\* reflect.Type.Name: empty for a type that has no name of its own
TypeName(T) ==
  CASE T = "sql.NullInt64" -> "NullInt64"
    [] T = "sql.Scanner" -> "Scanner"
    [] T = "opt_test.TestStruct1" -> "TestStruct1"
    [] T \in {"int", "string", "bool"} -> T
    [] OTHER -> ""

\* reflect.Type.PkgPath, as the sequence of its elements between slashes;
\* the tests' own package has a path of one element
PkgPath(T) ==
  CASE T \in {"sql.NullInt64", "sql.Scanner"} -> <<"database", "sql">>
    [] T = "opt_test.TestStruct1" -> <<"opt_test">>
    [] OTHER -> <<>>

\* fmt.Sprintf("%T", reflect.New(t).Elem().Interface()): the zero value of
\* an interface type is the nil interface, which has no type to print
SprintT(T) == IF KindOf(T) = "interface" THEN "<nil>" ELSE T

\* getTypeName(t)
getTypeName(T) ==
  IF TypeName(T) = "" THEN SprintT(T)
  ELSE IF Len(PkgPath(T)) <= 1 THEN TypeName(T)
  ELSE PkgPath(T)[Len(PkgPath(T))] \o "." \o TypeName(T)

\* fmt.Sprintf("%#v", v)
SprintGoV(v) ==
  LET fields == <<"{Int64:">> \o FormatInt(v.n) \o <<", Valid:">>
                \o FormatBool(Len(v.s) > 0) \o <<"}">>
  IN  CASE v.k = "nil" -> <<"<nil>">>
        [] v.k = "string" -> Quoted(v.s)
        [] v.k = "bool" -> FormatBool(v.n = 1)
        [] v.k = "sql.NullInt64" -> <<"sql.NullInt64">> \o fields
        [] v.k = "*sql.NullInt64" -> <<"&sql.NullInt64">> \o fields
        [] v.k = "opt_test.TestStruct1" ->
             <<"opt_test.TestStruct1{V:">> \o Quoted(v.s) \o <<"}">>
        [] OTHER -> FormatInt(v.n)

\* o.GoString(): the text, in pieces
GoString(opt) ==
  IF ~opt.Valid THEN <<"opt.New[", getTypeName(opt.T), "]()">>
  ELSE IF KindOf(opt.T) = "interface"
  THEN <<"opt.From[", getTypeName(opt.T), "](">> \o SprintGoV(opt.V) \o <<")">>
  ELSE <<"opt.From(">> \o SprintGoV(opt.V) \o <<")">>

\* Ptr that returns the address of the option's own V
PtrAlias(opt, h) == IF ~opt.Valid THEN [a |-> 0, h |-> h] ELSE [a |-> 1, h |-> h]

\* o.Ptr(): the pointer returned and the heap after the call; a present
\* option's value is copied into a fresh cell
Ptr(opt, h) ==
  IF ~opt.Valid THEN [a |-> 0, h |-> h]
  ELSE [a |-> Len(h) + 1, h |-> Append(h, opt.V)]

\* MarshalJSON that encodes a present zero value as null
MarshalJSONOmitZero(opt) ==
  IF ~opt.Valid \/ opt.V = Zero(opt.T) THEN [b |-> JSONNull, err |-> NoErr]
  ELSE jsonMarshal(opt.V)

\* o.MarshalJSON(): [b, err]
MarshalJSON(opt) ==
  IF ~opt.Valid THEN [b |-> JSONNull, err |-> NoErr] ELSE jsonMarshal(opt.V)

\* Value that converts the held value of an absent option too
ValueIgnoringValid(opt) == ConvertValue(opt.V)

\* Value that hands out nil for a present zero value too
ValueZeroAsNull(opt) ==
  IF ~opt.Valid \/ opt.V = Zero(opt.T) THEN [v |-> Nil, err |-> NoErr]
  ELSE ConvertValue(opt.V)

\* o.Value(): [v, err]
Value(opt) ==
  IF ~opt.Valid THEN [v |-> Nil, err |-> NoErr] ELSE ConvertValue(opt.V)

\* Scan that clears Valid on nil but keeps the held value
ScanKeepValue(opt, data) ==
  IF data = Nil
  THEN [o |-> Opt(opt.T, FALSE, opt.V), err |-> NoErr, calls |-> <<>>,
        alloc |-> <<>>, eng |-> <<>>]
  ELSE LET r == scanAssign(opt.T, Zero(opt.T), data)
       IN  [o |-> Opt(opt.T, TRUE, r.V), err |-> r.err, calls |-> r.calls,
                alloc |-> r.alloc,
            eng |-> <<Invocation(opt.T, FALSE, data)>> \o r.eng]

\* Scan that returns on nil without touching the option
ScanNilNoop(opt, data) ==
  IF data = Nil
  THEN [o |-> opt, err |-> NoErr, calls |-> <<>>, alloc |-> <<>>, eng |-> <<>>]
  ELSE LET r == scanAssign(opt.T, Zero(opt.T), data)
       IN  [o |-> Opt(opt.T, TRUE, r.V), err |-> r.err, calls |-> r.calls,
                alloc |-> r.alloc,
            eng |-> <<Invocation(opt.T, FALSE, data)>> \o r.eng]

\* Scan that marks the option present only when the coercion succeeds
ScanValidOnSuccess(opt, data) ==
  IF data = Nil
  THEN [o |-> Opt(opt.T, FALSE, Zero(opt.T)), err |-> NoErr, calls |-> <<>>,
        alloc |-> <<>>, eng |-> <<>>]
  ELSE LET r == scanAssign(opt.T, Zero(opt.T), data)
       IN  [o |-> Opt(opt.T, r.err = NoErr, r.V), err |-> r.err,
            calls |-> r.calls, alloc |-> r.alloc,
            eng |-> <<Invocation(opt.T, FALSE, data)>> \o r.eng]

\* Scan that takes a byte slice without bytes for the no-value signal too
ScanEmptyBytesAbsent(opt, data) ==
  IF data = Nil \/ (data.k = "[]uint8" /\ Len(data.s) = 0)
  THEN [o |-> Opt(opt.T, FALSE, Zero(opt.T)), err |-> NoErr, calls |-> <<>>,
        alloc |-> <<>>, eng |-> <<>>]
  ELSE LET r == scanAssign(opt.T, Zero(opt.T), data)
       IN  [o |-> Opt(opt.T, TRUE, r.V), err |-> r.err, calls |-> r.calls,
            alloc |-> r.alloc,
            eng |-> <<Invocation(opt.T, FALSE, data)>> \o r.eng]

\* Scan that marks the option and coerces into the value it holds, without
\* clearing it first
ScanNoReset(opt, data) ==
  IF data = Nil
  THEN [o |-> Opt(opt.T, FALSE, Zero(opt.T)), err |-> NoErr, calls |-> <<>>,
        alloc |-> <<>>, eng |-> <<>>]
  ELSE LET r == scanAssign(opt.T, opt.V, data)
       IN  [o |-> Opt(opt.T, TRUE, r.V), err |-> r.err, calls |-> r.calls,
            alloc |-> r.alloc,
            eng |-> <<Invocation(opt.T, FALSE, data)>> \o r.eng]

\* o.Scan(data): the option after the call and the error returned
Scan(opt, data) ==
  LET reset == Opt(opt.T, FALSE, Zero(opt.T))
  IN  IF data = Nil
      THEN [o |-> reset, err |-> NoErr, calls |-> <<>>, alloc |-> <<>>,
            eng |-> <<>>]
      ELSE Only({[o |-> Opt(opt.T, TRUE, r.V), err |-> r.err,
                  calls |-> r.calls, alloc |-> r.alloc,
                  eng |-> <<Invocation(opt.T, FALSE, data)>> \o r.eng] :
                   r \in {scanAssign(opt.T, reset.V, data)}})

\* UnmarshalJSON that marks the option present only when decoding succeeds
UnmarshalJSONValidOnSuccess(opt, data) ==
  LET reset == Opt(opt.T, FALSE, Zero(opt.T))
  IN  IF Len(data) = 0 \/ data = JSONNull THEN [o |-> reset, err |-> NoErr]
      ELSE LET r == jsonUnmarshal(opt.T, reset.V, data)
           IN  [o |-> Opt(opt.T, r.err = NoErr, r.V), err |-> r.err]

\* o.UnmarshalJSON(data): the option after the call and the error returned
UnmarshalJSON(opt, data) ==
  LET reset == Opt(opt.T, FALSE, Zero(opt.T))
  IN  IF Len(data) = 0 \/ data = JSONNull THEN [o |-> reset, err |-> NoErr]
      ELSE LET r == jsonUnmarshal(opt.T, reset.V, data)
           IN  [o |-> Opt(opt.T, TRUE, r.V), err |-> r.err]

\* json.Unmarshal(data, &o) for an option variable: the decoder checks that
\* data is well formed before it calls o.UnmarshalJSON(data)
jsonUnmarshalOption(opt, data) ==
  IF JSONKind(data) = "invalid" THEN [o |-> opt, err |-> ErrJSONSyntax(data)]
  ELSE UnmarshalJSON(opt, data)

\* json.Unmarshal(data, &p) for a nil p of type *T: whether p is non-nil
\* afterwards, what it then points at, and the error
jsonUnmarshalPtr(T, data) ==
  IF JSONKind(data) = "invalid"
  THEN [nonnil |-> FALSE, V |-> Zero(T), err |-> ErrJSONSyntax(data)]
  ELSE IF JSONKind(data) = "null"
  THEN [nonnil |-> FALSE, V |-> Zero(T), err |-> NoErr]
  ELSE LET r == jsonUnmarshal(T, Zero(T), data)
       IN  [nonnil |-> TRUE, V |-> r.V, err |-> r.err]

(***************************************************************************)
(* The XML codec of an option that is the field V of a struct S.           *)
(***************************************************************************)
\* the start and end tags of an element
StartTag(name) == <<"<", name, ">">>

EndTag(name) == <<"<", "/", name, ">">>

\* e.EncodeElement(v, start) for an integer v and the start element V
xmlEncodeElement(v) == StartTag("V") \o FormatInt(v.n) \o EndTag("V")

\* MarshalXML that writes the element for an absent option too
MarshalXMLAlways(opt) == [b |-> xmlEncodeElement(opt.V), err |-> NoErr]

\* o.MarshalXML(e, start): what it writes to the encoder, and its error
MarshalXML(opt) ==
  IF ~opt.Valid THEN [b |-> <<>>, err |-> NoErr]
  ELSE [b |-> xmlEncodeElement(opt.V), err |-> NoErr]

\* xml.Marshal(S{V: o}): the element S around what the field wrote
xmlMarshal(opt) ==
  LET r == MarshalXML(opt)
  IN  [b |-> StartTag("S") \o r.b \o EndTag("S"), err |-> r.err]

\* d.DecodeElement(&ptr, &start) for a nil ptr of type *T, T an integer
\* type, and an element with the character data cd: the decoder allocates
\* the integer and parses cd into it, empty data giving 0
xmlDecodeElementPtr(T, cd) ==
  IF Len(cd) = 0 THEN [nonnil |-> TRUE, V |-> Zero(T), err |-> NoErr]
  ELSE LET r == ParseInt(cd, BitsOf(T))
       IN  IF r.err = "" THEN [nonnil |-> TRUE, V |-> Val(T, r.n, <<>>), err |-> NoErr]
           ELSE [nonnil |-> TRUE, V |-> Zero(T),
                 err |-> Err("strconv.ParseInt: parsing %q: %v", "", cd, "", r.err)]

\* o.UnmarshalXML(d, start) for an element with the character data cd
UnmarshalXML(opt, cd) ==
  LET r == xmlDecodeElementPtr(opt.T, cd)
  IN  IF r.err # NoErr THEN [o |-> opt, err |-> r.err]
      ELSE IF ~r.nonnil THEN [o |-> Opt(opt.T, FALSE, Zero(opt.T)), err |-> NoErr]
      ELSE [o |-> Opt(opt.T, TRUE, r.V), err |-> NoErr]

\* the number of V start tags in a document
CountV(doc) ==
  Cardinality({i \in 1..Len(doc) : i + 2 <= Len(doc)
                                    /\ SubSeq(doc, i, i + 2) = StartTag("V")})

\* xml.Unmarshal(doc, &s) for s of type S, opt being s.V: the decoder calls
\* the field's UnmarshalXML for a child element V and leaves the field as
\* it is when there is none
xmlUnmarshal(opt, doc) ==
  LET n == Len(doc)
      inner == SubSeq(doc, 4, n - 4)
      m == Len(inner)
      cd == SubSeq(inner, 4, m - 4)
  IN  IF n < 7 \/ SubSeq(doc, 1, 3) # StartTag("S")
         \/ SubSeq(doc, n - 3, n) # EndTag("S")
      THEN [o |-> opt, err |-> Err("XML syntax error", "", doc, "", "")]
      ELSE IF m = 0 THEN [o |-> opt, err |-> NoErr]
      ELSE IF m < 7 \/ SubSeq(inner, 1, 3) # StartTag("V")
              \/ SubSeq(inner, m - 3, m) # EndTag("V")
              \/ \E i \in 1..Len(cd) : cd[i] \in {"<", ">"}
      THEN [o |-> opt, err |-> Err("XML syntax error", "", doc, "", "")]
      ELSE UnmarshalXML(opt, cd)

\* the documents handed to xml.Unmarshal: what xml.Marshal gives for the
\* options of the model, an empty element, and text that is no number
XMLDocs ==
  {xmlMarshal(Opt("int", TRUE, v)).b : v \in XMLVals}
  \cup {xmlMarshal(Opt("int", FALSE, Zero("int"))).b,
        StartTag("S") \o StartTag("V") \o EndTag("V") \o EndTag("S"),
        StartTag("S") \o StartTag("V") \o <<"x">> \o EndTag("V") \o EndTag("S"),
        StartTag("S")}

(***************************************************************************)
(* The state machine: one option variable of some type T, the caller's     *)
(* pointers, and the last call with what it returned.                      *)
(***************************************************************************)
\* no option was asked for its Value
NoValue == [q |-> Opt("", FALSE, Nil), v |-> Nil, err |-> NoErr]

\* what the last call returned: its error, value, bytes and pointer, and
\* the source or text it was given
Ret(op, err, v, b, a, src, data) ==
  [op |-> op, err |-> err, v |-> v, b |-> b, a |-> a, src |-> src, data |-> data,
   calls |-> <<>>, eng |-> <<>>, given |-> NoValue]

\* the option variable as it was before the last call, and whether the call
\* before that one returned an error
Pre == [Valid |-> o.Valid, V |-> heap[o.slot], failed |-> ret.err # NoErr]

\* assignment of an option value to the option variable; from is the
\* pointer the value was built from by FromPtr, 0 for any other value
Assign(opt, from) ==
  /\ o' = [T |-> opt.T, Valid |-> opt.Valid, slot |-> 1]
  /\ heap' = [heap EXCEPT ![1] = opt.V]
  /\ origin' = from

Init ==
  /\ \E T \in Types :
       /\ o = [T |-> T, Valid |-> FALSE, slot |-> 1]
       /\ heap = <<Zero(T)>>
       /\ pre = [Valid |-> FALSE, V |-> Zero(T), failed |-> FALSE]
  /\ held = <<>>
  /\ origin = 0
  /\ ret = Ret("init", NoErr, Nil, <<>>, 0, Nil, <<>>)

\* var o opt.Option[T] for a T of ZeroTypes
InitZero ==
  /\ \E T \in ZeroTypes :
       /\ o = [T |-> T, Valid |-> FALSE, slot |-> 1]
       /\ heap = <<Zero(T)>>
       /\ pre = [Valid |-> FALSE, V |-> Zero(T), failed |-> FALSE]
  /\ held = <<>>
  /\ origin = 0
  /\ ret = Ret("init", NoErr, Nil, <<>>, 0, Nil, <<>>)

\* var o opt.Option[T] for a T of GoTypes
InitGo ==
  /\ \E T \in GoTypes :
       /\ o = [T |-> T, Valid |-> FALSE, slot |-> 1]
       /\ heap = <<Zero(T)>>
       /\ pre = [Valid |-> FALSE, V |-> Zero(T), failed |-> FALSE]
  /\ held = <<>>
  /\ origin = 0
  /\ ret = Ret("init", NoErr, Nil, <<>>, 0, Nil, <<>>)

\* var s S, o being s.V of type Option[int]
InitXML ==
  /\ o = [T |-> "int", Valid |-> FALSE, slot |-> 1]
  /\ heap = <<Zero("int")>>
  /\ pre = [Valid |-> FALSE, V |-> Zero("int"), failed |-> FALSE]
  /\ held = <<>>
  /\ origin = 0
  /\ ret = Ret("init", NoErr, Nil, <<>>, 0, Nil, <<>>)

\* the types whose values the driver hands back as they are
RoundTypes == {"int64", "string", "bool"}

\* the options of type T a caller makes with New and From
Options(T) == {New(T)} \cup {From(T, v) : v \in UserVals(T)}

\* var o opt.Option[X] for an X of RoundTypes
InitRound ==
  /\ \E T \in RoundTypes :
       /\ o = [T |-> T, Valid |-> FALSE, slot |-> 1]
       /\ heap = <<Zero(T)>>
       /\ pre = [Valid |-> FALSE, V |-> Zero(T), failed |-> FALSE]
  /\ held = <<>>
  /\ origin = 0
  /\ ret = Ret("init", NoErr, Nil, <<>>, 0, Nil, <<>>)

\* var o opt.Option[T] for a T of ScanTypes
InitScan ==
  /\ \E T \in ScanTypes :
       /\ o = [T |-> T, Valid |-> FALSE, slot |-> 1]
       /\ heap = <<Zero(T)>>
       /\ pre = [Valid |-> FALSE, V |-> Zero(T), failed |-> FALSE]
  /\ held = <<>>
  /\ origin = 0
  /\ ret = Ret("init", NoErr, Nil, <<>>, 0, Nil, <<>>)

\* o = opt.New[T]()
DoNew ==
  /\ Assign(New(o.T), 0)
  /\ ret' = Ret("New", NoErr, Nil, <<>>, 0, Nil, <<>>)
  /\ pre' = Pre
  /\ UNCHANGED held

\* o = opt.From(v)
DoFrom(v) ==
  /\ Assign(From(o.T, v), 0)
  /\ ret' = Ret("From", NoErr, Nil, <<>>, 0, v, <<>>)
  /\ pre' = Pre
  /\ UNCHANGED held

\* p := &v in the caller
AllocPtr(v) ==
  /\ Len(heap) < MaxHeap
  /\ Len(held) < MaxHeld
  /\ heap' = Append(heap, v)
  /\ held' = Append(held, [a |-> Len(heap) + 1, from |-> "caller"])
  /\ ret' = Ret("AllocPtr", NoErr, Nil, <<>>, Len(heap) + 1, Nil, <<>>)
  /\ pre' = Pre
  /\ UNCHANGED <<o, origin>>

\* FromPtr that keeps the pointee's storage as the option's V instead of
\* copying it
DoFromPtrAlias(a) ==
  /\ o' = [T |-> o.T, Valid |-> a # 0, slot |-> IF a = 0 THEN 1 ELSE a]
  /\ heap' = IF a = 0 THEN [heap EXCEPT ![1] = Zero(o.T)] ELSE heap
  /\ origin' = a
  /\ ret' = Ret("FromPtr", NoErr, Nil, <<>>, a, Nil, <<>>)
  /\ pre' = Pre
  /\ UNCHANGED held

\* o = opt.FromPtr(p) for the pointer a (0: nil)
DoFromPtr(a) ==
  /\ Assign(FromPtr(o.T, heap, a), a)
  /\ ret' = Ret("FromPtr", NoErr, Nil, <<>>, a, Nil, <<>>)
  /\ pre' = Pre
  /\ UNCHANGED held

\* r := o.Ptr(), r kept by the caller
DoPtr ==
  /\ Len(held) < MaxHeld
  /\ ~o.Valid \/ Len(heap) < MaxHeap
  /\ LET r == Ptr(Cur, heap)
     IN  /\ heap' = r.h
         /\ held' = Append(held, [a |-> r.a, from |-> "Ptr"])
         /\ ret' = Ret("Ptr", NoErr, Nil, <<>>, r.a, Nil, <<>>)
  /\ pre' = Pre
  /\ UNCHANGED <<o, origin>>

\* *p = v in the caller, p the i-th pointer it keeps
WritePtr(i, v) ==
  /\ held[i].a # 0
  /\ heap[held[i].a] # v
  /\ heap' = [heap EXCEPT ![held[i].a] = v]
  /\ ret' = Ret("WritePtr", NoErr, Nil, <<>>, held[i].a, v, <<>>)
  /\ pre' = Pre
  /\ UNCHANGED <<o, held, origin>>

\* the caller drops its pointers; the cells they pointed at are gone
Forget ==
  /\ Len(held) > 0
  /\ held' = <<>>
  /\ heap' = <<heap[o.slot]>>
  /\ o' = [o EXCEPT !.slot = 1]
  /\ origin' = 0
  /\ ret' = Ret("Forget", NoErr, Nil, <<>>, 0, Nil, <<>>)
  /\ pre' = Pre

\* v as it is once the cells the call allocated lie at base + 1 onwards: a
\* pointer to the i-th of them points at base + i
Placed(v, alloc, base) ==
  IF Len(alloc) > 0 /\ KindOf(v.k) = "ptr" /\ v.n # 0
  THEN [v EXCEPT !.n = base + v.n] ELSE v

\* err := o.Scan(src); what the call allocated is placed past the end of
\* the heap
DoScan(src) ==
  /\ \E r \in {Scan(Cur, src)} :
         /\ Len(heap) + Len(r.alloc) =< MaxHeap
         /\ o' = [T |-> o.T, Valid |-> r.o.Valid, slot |-> 1]
         /\ heap' = [heap EXCEPT ![1] = Placed(r.o.V, r.alloc, Len(heap))]
                       \o [i \in 1..Len(r.alloc) |->
                             Placed(r.alloc[i], r.alloc, Len(heap))]
         /\ origin' = 0
         /\ ret' = [Ret("Scan", r.err, Nil, <<>>, 0, src, <<>>)
                   EXCEPT !.calls = r.calls, !.eng = r.eng]
  /\ pre' = Pre
  /\ UNCHANGED held

\* src[i] = c in the caller, src the byte slice it handed to the last Scan;
\* every slice over the same array shows the write
WriteSrc(i, c) ==
  /\ ret.op \in {"Scan", "WriteSrc"}
  /\ SharesCallerArray(ret.src)
  /\ i \in 1..Len(ret.src.s) /\ ret.src.s[i] # c
  /\ ret' = [ret EXCEPT !.op = "WriteSrc", !.src.s[i] = c]
  /\ heap' = [a \in DOMAIN heap |->
                IF SharesCallerArray(heap[a])
                THEN [heap[a] EXCEPT !.s[i] = c] ELSE heap[a]]
  /\ pre' = Pre
  /\ UNCHANGED <<o, held, origin>>

\* err := o.UnmarshalJSON(data)
DoUnmarshalJSON(data) ==
  /\ LET r == UnmarshalJSON(Cur, data)
     IN  /\ Assign(r.o, 0)
         /\ ret' = Ret("UnmarshalJSON", r.err, Nil, <<>>, 0, Nil, data)
  /\ pre' = Pre
  /\ UNCHANGED held

\* err := json.Unmarshal(data, &o)
DoJSONUnmarshal(data) ==
  /\ LET r == jsonUnmarshalOption(Cur, data)
     IN  /\ Assign(r.o, 0)
         /\ ret' = Ret("json.Unmarshal", r.err, Nil, <<>>, 0, Nil, data)
  /\ pre' = Pre
  /\ UNCHANGED held

\* v, verr := q.Value(); err := o.Scan(v), for another option q of o's type
DoScanValueOf(q) ==
  /\ \E val \in {Value(q)} :
       \E r \in {Scan(Cur, val.v)} :
         /\ Assign(r.o, 0)
         /\ ret' = [Ret("ScanValueOf", r.err, Nil, <<>>, 0, val.v, <<>>)
                   EXCEPT !.calls = r.calls, !.eng = r.eng,
                          !.given = [q |-> q, v |-> val.v, err |-> val.err]]
  /\ pre' = Pre
  /\ UNCHANGED held

\* v, err := o.Value()
DoValue ==
  /\ LET r == Value(Cur)
     IN  ret' = Ret("Value", r.err, r.v, <<>>, 0, Nil, <<>>)
  /\ pre' = Pre
  /\ UNCHANGED <<o, heap, held, origin>>

\* b := o.NullOrZero()
DoNullOrZero ==
  /\ ret' = Ret("NullOrZero", NoErr, BoolV(NullOrZero(Cur)), <<>>, 0, Nil, <<>>)
  /\ pre' = Pre
  /\ UNCHANGED <<o, heap, held, origin>>

\* b, err := xml.Marshal(s)
DoXMLMarshal ==
  /\ LET r == xmlMarshal(Cur)
     IN  ret' = Ret("xml.Marshal", r.err, Nil, r.b, 0, Nil, <<>>)
  /\ pre' = Pre
  /\ UNCHANGED <<o, heap, held, origin>>

\* err := xml.Unmarshal(doc, &s)
DoXMLUnmarshal(doc) ==
  /\ LET r == xmlUnmarshal(Cur, doc)
     IN  /\ Assign(r.o, 0)
         /\ ret' = Ret("xml.Unmarshal", r.err, Nil, <<>>, 0, Nil, doc)
  /\ pre' = Pre
  /\ UNCHANGED held

\* s := o.GoString()
DoGoString ==
  /\ ret' = Ret("GoString", NoErr, Nil, GoString(Cur), 0, Nil, <<>>)
  /\ pre' = Pre
  /\ UNCHANGED <<o, heap, held, origin>>

\* b, err := o.MarshalJSON()
DoMarshalJSON ==
  /\ LET r == MarshalJSON(Cur)
     IN  ret' = Ret("MarshalJSON", r.err, Nil, r.b, 0, Nil, <<>>)
  /\ pre' = Pre
  /\ UNCHANGED <<o, heap, held, origin>>

\* the pointers the caller can hand to FromPtr: nil and the ones it keeps
CallerPtrs == {0} \cup {held[i].a : i \in 1..Len(held)}

\* the database and JSON delegation points, on options the caller builds
\* with New, From and FromPtr
Next ==
  \/ DoNew
  \/ \E v \in UserVals(o.T) : DoFrom(v)
  \/ \E v \in UserVals(o.T) : AllocPtr(v)
  \/ \E a \in CallerPtrs : DoFromPtr(a)
  \/ Forget
  \/ \E src \in ScanSources : DoScan(src)
  \/ \E data \in JSONInputs : DoUnmarshalJSON(data)
  \/ DoValue
  \/ DoMarshalJSON

Spec == Init /\ [][Next]_vars

\* the constructors and the pointer accessors, with a caller that writes
\* through the pointers it keeps
NextPtr ==
  \/ DoNew
  \/ \E v \in UserVals(o.T) : DoFrom(v)
  \/ \E v \in UserVals(o.T) : AllocPtr(v)
  \/ \E a \in CallerPtrs : DoFromPtr(a)
  \/ DoPtr
  \/ \E i \in 1..Len(held), v \in UserVals(o.T) : WritePtr(i, v)
  \/ Forget
  \/ DoValue
  \/ DoMarshalJSON

SpecPtr == Init /\ [][NextPtr]_vars

\* the JSON codec: the option's own methods and the decoder's entry point
NextJSON ==
  \/ DoNew
  \/ \E v \in UserVals(o.T) : DoFrom(v)
  \/ \E data \in JSONInputs : DoUnmarshalJSON(data)
  \/ \E data \in JSONInputs : DoJSONUnmarshal(data)
  \/ DoMarshalJSON

SpecJSON == Init /\ [][NextJSON]_vars

\* the coercion engine behind Scan
NextScan ==
  \/ DoNew
  \/ \E src \in EngineSources : DoScan(src)
  \/ \E i \in 1..Len(ret.src.s), c \in {"x"} : WriteSrc(i, c)

SpecScan == InitScan /\ [][NextScan]_vars

\* the zero test, on options the caller builds with New and From
NextZero ==
  \/ DoNew
  \/ \E v \in ZeroVals(o.T) : DoFrom(v)
  \/ DoNullOrZero

SpecZero == InitZero /\ [][NextZero]_vars

\* the XML codec, on a struct whose field the caller sets with New and From
NextXML ==
  \/ DoNew
  \/ \E v \in XMLVals : DoFrom(v)
  \/ DoXMLMarshal
  \/ \E doc \in XMLDocs : DoXMLUnmarshal(doc)

SpecXML == InitXML /\ [][NextXML]_vars

\* the Go-syntax rendering, on options the caller builds with New and From
NextGo ==
  \/ DoNew
  \/ \E v \in GoVals(o.T) : DoFrom(v)
  \/ DoGoString

SpecGo == InitGo /\ [][NextGo]_vars

\* Value of one option scanned into another, whatever that one holds
NextRound ==
  \/ DoNew
  \/ \E v \in UserVals(o.T) : DoFrom(v)
  \/ \E src \in ScanSources : DoScan(src)
  \/ \E q \in Options(o.T) : DoScanValueOf(q)

SpecRound == InitRound /\ [][NextRound]_vars

(***************************************************************************)
(* Properties.                                                             *)
(***************************************************************************)
\* the caller's write through a pointer it keeps
IsWritePtr == \E i \in 1..Len(held), v \in UserVals(o.T) : WritePtr(i, v)

\* C1: for every T and every v, the zero value of T included, From(v) is
\* present (IsNull() false, Valid true) and holds v.
C1_FromPresent ==
  ret.op = "From" => o.Valid /\ ~IsNull(Cur) /\ Cur.V = ret.src

\* From was called with the zero value of T
C1_Witness == ret.op = "From" /\ ret.src = Zero(o.T) /\ o.Valid

\* C2: New[T]() and the zero-initialized Option[T] are the same state:
\* absent, holding the zero value of T.
C2_NewIsZeroValue ==
  ret.op \in {"init", "New"} =>
    /\ IsNull(Cur)
    /\ Cur = Opt(o.T, FALSE, Zero(o.T))
    /\ Cur = New(o.T)

\* New replaced a present option holding a non-zero value
C2_Witness == ret.op = "New" /\ pre.Valid /\ pre.V # Zero(o.T) /\ IsNull(Cur)

\* C3: FromPtr(nil) equals New[T](); FromPtr(p) for non-nil p is present and
\* holds a copy of *p, equal to From(*p); a later write to *p never changes
\* the option.
C3_FromPtrState ==
  ret.op = "FromPtr" =>
    IF ret.a = 0 THEN Cur = New(o.T)
    ELSE o.Valid /\ Cur = From(o.T, heap[ret.a]) /\ o.slot # ret.a

C3_FromPtrCopies == []C3_FromPtrState /\ [][IsWritePtr => Cur' = Cur]_vars

\* the caller wrote to *p after FromPtr(p), and the option still holds the
\* value *p had
C3_Witness ==
  /\ ret.op = "WritePtr" /\ origin # 0 /\ ret.a = origin
  /\ o.Valid /\ heap[origin] # Cur.V

\* C4: Ptr() returns nil for an absent option; for a present one a pointer
\* to a fresh copy of the held value: no pointer returned before points
\* there, and a write through it never changes the option.
C4_PtrState ==
  /\ ret.op = "Ptr" =>
       IF ~o.Valid THEN ret.a = 0
       ELSE /\ ret.a # 0 /\ ret.a # o.slot
            /\ heap[ret.a] = Cur.V
            /\ \A i \in 1..(Len(held) - 1) : held[i].a # ret.a
  /\ \A i, j \in 1..Len(held) :
       i # j /\ held[i].from = "Ptr" /\ held[i].a # 0 => held[i].a # held[j].a

C4_PtrCopies == []C4_PtrState /\ [][IsWritePtr => Cur' = Cur /\ o' = o]_vars

\* two calls of Ptr on a present option, then a write through one of the
\* pointers returned
C4_Witness ==
  /\ ret.op = "WritePtr" /\ o.Valid
  /\ Len(held) = 2 /\ held[1].from = "Ptr" /\ held[2].from = "Ptr"
  /\ held[1].a # 0 /\ held[2].a # 0 /\ held[1].a # held[2].a
  /\ heap[ret.a] # Cur.V

\* C5: in every state reached by New, From, FromPtr, Scan and UnmarshalJSON
\* calls, failing ones included, an absent option holds the zero value of T.
C5_AbsentHoldsZero == ~o.Valid => Cur.V = Zero(o.T)

\* an option made absent by Scan or UnmarshalJSON after a failed call had
\* left it present with a non-zero value
C5_Witness ==
  /\ ret.op \in {"Scan", "UnmarshalJSON"} /\ ~o.Valid
  /\ pre.Valid /\ pre.V # Zero(o.T) /\ pre.failed

\* C6: Scan(nil) returns no error and leaves the option absent with the zero
\* value of T, whatever the option was before.
C6_ScanNilResets ==
  ret.op = "Scan" /\ ret.src = Nil =>
    ret.err = NoErr /\ IsNull(Cur) /\ Cur.V = Zero(o.T)

\* Scan(nil) on what a failed Scan left: present with a non-zero value
C6_Witness ==
  /\ ret.op = "Scan" /\ ret.src = Nil
  /\ pre.Valid /\ pre.V # Zero(o.T) /\ pre.failed

\* C7: Scan with a non-nil source marks the option present whether or not
\* the coercion succeeds, and returns the coercion's error unchanged.
C7_ScanMarksPresent ==
  ret.op = "Scan" /\ ret.src # Nil =>
    /\ ~IsNull(Cur)
    /\ ret.err = scanAssign(o.T, Zero(o.T), ret.src).err
    /\ Cur.V = scanAssign(o.T, Zero(o.T), ret.src).V

\* a timestamp scanned into Option[bool]: an error, and the option present
C7_Witness ==
  /\ ret.op = "Scan" /\ o.T = "bool" /\ ret.src = TimeV(1)
  /\ ret.err # NoErr /\ ~IsNull(Cur)

\* C8: for X in {int64, float64, string, bool} and every source of the
\* matrix, Scan into a fresh Option[X] gives the presence flag, the value and
\* the error (nil or not, and its message) that Scan into a fresh sql.NullX
\* gives.
C8_ScanLikeNullX ==
  /\ \A X \in NullTypes, src \in ScanSources :
       LET r == Scan(New(X), src)
       IN  [Valid |-> r.o.Valid, V |-> r.o.V, err |-> r.err] = NullScan(X, src)
  /\ ret.op = "Scan" /\ o.T \in NullTypes /\ IsNull(Opt(o.T, pre.Valid, pre.V))
       /\ pre.V = Zero(o.T)
     => [Valid |-> o.Valid, V |-> Cur.V, err |-> ret.err] = NullScan(o.T, ret.src)

\* a fresh Option[int64] scanned with float64(1.1): present, zero, and the
\* conversion error whose cause is "invalid syntax"
C8_Witness ==
  /\ ret.op = "Scan" /\ o.T = "int64" /\ ~pre.Valid /\ pre.V = Zero(o.T)
  /\ ret.src = FloatV(11) /\ o.Valid /\ Cur.V = IntV(0)
  /\ ret.err.cause = ErrSyntax

\* C9: Value() of an absent option is (nil, nil); of a present option it is
\* what the default parameter converter returns for the held value; hence
\* converting FromPtr(p) gives what converting the pointer p gives, for nil
\* and non-nil p.
C9_ValueDelegates ==
  /\ ret.op = "Value" =>
       IF IsNull(Cur) THEN ret.v = Nil /\ ret.err = NoErr
       ELSE [v |-> ret.v, err |-> ret.err] = ConvertValue(Cur.V)
  /\ \A a \in CallerPtrs :
       Value(FromPtr(o.T, heap, a)) = ConvertValuePtr(heap, a)

\* Value() called on FromPtr(p) for a non-nil p whose pointee the converter
\* rejects, and on an absent option whose caller keeps a pointer
C9_Witness ==
  /\ ret.op = "Value" /\ origin # 0 /\ ~IsNull(Cur)
  /\ ret.err = ErrUnsupportedType(heap[origin])

\* C10: MarshalJSON of an absent option is exactly null; of a present option
\* it is the encoding of the held value, the zero value included (From(0)
\* gives 0); both are what encoding the corresponding pointer gives.
C10_MarshalLikePointer ==
  /\ ret.op = "MarshalJSON" =>
       /\ IsNull(Cur) => ret.b = JSONNull /\ ret.err = NoErr
       /\ ~IsNull(Cur) => [b |-> ret.b, err |-> ret.err] = jsonMarshal(Cur.V)
       /\ ~IsNull(Cur) /\ Cur.V = IntV(0) => ret.b = <<"0">>
  /\ \A a \in CallerPtrs :
       MarshalJSON(FromPtr(o.T, heap, a)).b = jsonMarshalPtr(heap, a).b

\* From(0) of an Option[int64] encoded: the text 0
C10_Witness ==
  /\ ret.op = "MarshalJSON" /\ o.T = "int64" /\ ~IsNull(Cur)
  /\ Cur.V = Zero(o.T) /\ ret.b = <<"0">>

\* C11: UnmarshalJSON of empty input or of the token null resets the option
\* to absent and zero with no error, whatever it held; any other input marks
\* it present, decoding failures included, and the decoder's error comes
\* back unchanged.  Through json.Unmarshal, a fresh option ends with the
\* error, the presence (pointer non-nil) and the value a nil *X ends with.
C11_UnmarshalJSONDelegates ==
  /\ ret.op = "UnmarshalJSON" =>
       IF Len(ret.data) = 0 \/ ret.data = JSONNull
       THEN IsNull(Cur) /\ Cur.V = Zero(o.T) /\ ret.err = NoErr
       ELSE LET r == jsonUnmarshal(o.T, Zero(o.T), ret.data)
            IN  ~IsNull(Cur) /\ ret.err = r.err /\ Cur.V = r.V
  /\ \A T \in Types, data \in JSONInputs :
       LET r == jsonUnmarshalOption(New(T), data)
           p == jsonUnmarshalPtr(T, data)
       IN  r.err = p.err /\ r.o.Valid = p.nonnil /\ (p.nonnil => r.o.V = p.V)
  /\ ret.op = "json.Unmarshal" /\ ~pre.Valid /\ pre.V = Zero(o.T) =>
       LET p == jsonUnmarshalPtr(o.T, ret.data)
       IN  ret.err = p.err /\ o.Valid = p.nonnil /\ (p.nonnil => Cur.V = p.V)

\* {} decoded into a fresh Option[int64] through json.Unmarshal: the type
\* error comes back and the option is present
C11_Witness ==
  /\ ret.op = "json.Unmarshal" /\ ~pre.Valid /\ pre.V = Zero(o.T)
  /\ o.T = "int64" /\ ret.data = <<"{", "}">>
  /\ o.Valid /\ ret.err = ErrUnmarshalType(Val("object", 0, <<>>), "int64")

\* C12: when *T has a Scan method of its own, Scan with a non-nil source
\* calls it exactly once, with the source as given, and returns what it
\* returns; no other rule runs, also when it fails; the option is present
\* and holds what T's Scan wrote.  For a T without one, and no pointer to
\* a type with one, no Scan method is called.
C12_ScannerDelegation ==
  ret.op = "Scan" /\ ret.src # Nil =>
    IF IsScanner(o.T)
    THEN LET r == scannerScan(o.T, Zero(o.T), ret.src)
         IN  /\ ret.calls = <<ret.src>>
             /\ ret.err = r.err
             /\ ~IsNull(Cur) /\ Cur.V = r.V
    ELSE (KindOf(o.T) = "ptr" /\ IsScanner(Elem(o.T))) \/ ret.calls = <<>>

\* text scanned into an Option[TestStruct2]: its Scan kept the text and
\* failed, and that error is the one returned
C12_Witness ==
  /\ ret.op = "Scan" /\ o.T = "opt_test.TestStruct2" /\ ret.src = StrV(Hello)
  /\ ret.calls = <<StrV(Hello)>> /\ ret.err = Err("scan failed", "", <<>>, "", "")
  /\ ~IsNull(Cur) /\ Cur.V = Struct2V(Hello)

\* the caller writes to the slice it handed to Scan
IsWriteSrc == \E i \in 1..Len(ret.src.s), c \in {"x"} : WriteSrc(i, c)

\* the destination types a byte slice is stored in as a byte slice
TakesBytes(T) == T = "interface {}" \/ AssignableTo("[]uint8", T)

C13_State ==
  ret.op = "Scan" /\ ret.src.k = "[]uint8" /\ TakesBytes(o.T) =>
    /\ ret.err = NoErr /\ ~IsNull(Cur)
    /\ Cur.V.s = ret.src.s /\ (Cur.V.n = 0) = (ret.src.n = 0)
    /\ ~SharesCallerArray(Cur.V)

\* C13: a byte slice scanned into Option[[]byte], Option[any] or an option of
\* a type a byte slice is assignable to (json.RawMessage) is stored as a
\* copy: the held bytes equal the source's, and no write to the source
\* slice after Scan changes the held value.
C13_BytesCloned ==
  []C13_State /\ [][IsWriteSrc => Cur' = Cur /\ ~SharesCallerArray(Cur.V)]_vars

\* the caller overwrote the first byte of the slice it had scanned into an
\* Option[json.RawMessage], which still holds hello
C13_Witness ==
  /\ ret.op = "WriteSrc" /\ ret.src.s[1] = "x"
  /\ o.T = "json.RawMessage" /\ ~IsNull(Cur) /\ Cur.V.s = Hello

\* C14 as stated: NullOrZero() is true exactly when the option is absent or
\* holds the zero value of T, and false for every present non-zero value.
C14_NullOrZeroIffZeroOfT ==
  ret.op = "NullOrZero" =>
    (ret.v = BoolV(TRUE)) = (IsNull(Cur) \/ Cur.V = Zero(o.T))

\* C14 as amended: NullOrZero() is true exactly when the option is absent,
\* or holds the zero value of T, or T is an interface type and the value
\* inside the interface is the zero value of its own type (a nil pointer, 0,
\* the empty string); it is false for every other present value.
C14_NullOrZeroReflective ==
  ret.op = "NullOrZero" =>
    (ret.v = BoolV(TRUE)) =
      \/ IsNull(Cur)
      \/ Cur.V = Zero(o.T)
      \/ KindOf(o.T) = "interface" /\ Cur.V = Zero(Cur.V.k)

\* NullOrZero() on a present Option[map[string]int64] holding the nil map
C14_Witness ==
  /\ ret.op = "NullOrZero" /\ o.T = "map[string]int64" /\ ~IsNull(Cur)
  /\ Cur.V = MapV(FALSE, <<>>) /\ ret.v = BoolV(TRUE)

NameOfT(T) ==
  IF T = "opt_test.TestStruct1" THEN "TestStruct1" ELSE T

\* C16: GoString() is opt.New[<name of T>]() for an absent option,
\* opt.From(<value in Go syntax>) for a present option of a non-interface T,
\* and opt.From[<name of T>](<value in Go syntax>) for a present option of an
\* interface T.
C16_GoStringForms ==
  ret.op = "GoString" =>
    ret.b = IF IsNull(Cur) THEN <<"opt.New[", NameOfT(o.T), "]()">>
            ELSE IF KindOf(o.T) = "interface"
            THEN <<"opt.From[", NameOfT(o.T), "](">> \o SprintGoV(Cur.V) \o <<")">>
            ELSE <<"opt.From(">> \o SprintGoV(Cur.V) \o <<")">>

\* whether the integer n is a value of the 8 bit integer type T
Representable(n, T) ==
  IF T = "int8" THEN n >= -128 /\ n =< 127 ELSE n >= 0 /\ n =< 255

\* n cut down to the low 8 bits and read as a T
Wrapped(n, T) ==
  LET low == n % 256
  IN  IF T = "int8" /\ low >= 128 THEN low - 256 ELSE low

\* C17: an int64 source scanned into Option[int8] or Option[uint8] is stored
\* if and only if it lies in the range of T; otherwise Scan returns the
\* conversion error that carries the source's decimal text and the
\* destination kind, and the option holds T's zero value, not the source
\* cut down to 8 bits
C17_IntWidth ==
  (ret.op = "Scan" /\ o.T \in {"int8", "uint8"} /\ ret.src.k = "int64") =>
    LET n == ret.src.n
    IN  /\ o.Valid
        /\ (ret.err = NoErr) <=> Representable(n, o.T)
        /\ Representable(n, o.T) => Cur.V = Val(o.T, n, <<>>)
        /\ ~Representable(n, o.T) =>
              /\ ret.err.kind =
                   "converting driver.Value type %T (%q) to a %s: %v"
              /\ ret.err.srcT = "int64"
              /\ ret.err.q = FormatInt(n)
              /\ ret.err.dest = KindOf(o.T)
              /\ ret.err.cause \in {ErrRange, ErrSyntax}
              /\ Cur.V = Zero(o.T)
              /\ Wrapped(n, o.T) # 0 => Cur.V.n # Wrapped(n, o.T)

\* 128 scanned into an Option[int8]: refused, and -128 is not stored
C17_Witness ==
  /\ ret.op = "Scan" /\ o.T = "int8" /\ ret.src = IntV(128)
  /\ ret.err.cause = ErrRange /\ Cur.V = Zero("int8")
  /\ Wrapped(128, "int8") = -128

\* the sources the boolean normalization takes: booleans, the integers 0
\* and 1, and text that parses as a boolean
BoolAccepts(src) ==
  \/ src.k = "bool"
  \/ src.k = "int64" /\ src.n \in {0, 1}
  \/ src.k \in {"string", "[]uint8"} /\ ParseBool(src.s).err = ""

\* C18: a non-nil source scanned into Option[bool] succeeds exactly when
\* the database collaborator's boolean normalization accepts it, and then
\* the option holds the normalized boolean; when the normalization rejects
\* it, Scan returns the normalization's error as it is and the option holds
\* false
C18_BoolNormalization ==
  (ret.op = "Scan" /\ o.T = "bool" /\ ret.src # Nil) =>
    LET r == BoolConvertValue(ret.src)
    IN  /\ o.Valid
        /\ ret.err = r.err
        /\ (ret.err = NoErr) <=> BoolAccepts(ret.src)
        /\ r.err = NoErr => Cur.V = r.v /\ Cur.V.k = "bool"
        /\ r.err # NoErr => Cur.V = BoolV(FALSE)

\* a float scanned into an Option[bool] that held true: refused, false held
C18_Witness ==
  /\ ret.op = "Scan" /\ o.T = "bool" /\ ret.src = FloatV(0)
  /\ pre.Valid /\ pre.V = BoolV(TRUE)
  /\ ret.err # NoErr /\ Cur.V = BoolV(FALSE)

\* a call of Scan with a non-nil source on an option of a pointer type
IsPtrScan == ret'.op = "Scan" /\ o.T \in PtrTypes /\ ret'.src # Nil

\* what holds after a Scan of a non-nil source into an Option[*X]
C19_State ==
  (ret.op = "Scan" /\ o.T \in PtrTypes /\ ret.src # Nil) =>
    LET X == Elem(o.T)
        direct == Scan(Opt(X, FALSE, Zero(X)), ret.src)
    IN  /\ o.Valid
        /\ Cur.V.k = o.T
        /\ Cur.V.n \in DOMAIN heap /\ Cur.V.n # o.slot
        /\ heap[Cur.V.n] = direct.o.V
        /\ ret.err = direct.err
        /\ ret.calls = direct.calls
        /\ Cur.V.n # pre.V.n

\* C19: a non-nil source scanned into an Option[*X] leaves the option
\* holding a pointer to a newly allocated X that holds what scanning the
\* source into an Option[X] leaves in it, the error returned is the one
\* that scan returns, and the pointer is none that existed before the call
C19_PointerTarget ==
  []C19_State /\ [][IsPtrScan => Cur'.V.n \notin DOMAIN heap]_vars

\* "1" scanned into an Option[*int64] that already held a pointer: a
\* different pointer, at an int64 of 1
C19_Witness ==
  /\ ret.op = "Scan" /\ o.T = "*int64" /\ ret.src = StrV(<<"1">>)
  /\ pre.Valid /\ pre.V.n # 0
  /\ ret.err = NoErr /\ Cur.V.n # pre.V.n /\ heap[Cur.V.n] = IntV(1)

\* the pairs of a destination type that is no pointer and a non-nil source
\* that no rule takes: a struct type without a Scan method and a source of
\* another type, the named string type and a source that is neither text
\* nor bytes, the named byte-slice type and a source that is no byte slice
NoRuleApplies(T, src) ==
  \/ KindOf(T) = "struct" /\ ~IsScanner(T) /\ src.k # T
  \/ T = NamedString /\ src.k \notin {"string", "[]uint8"}
  \/ T = "json.RawMessage" /\ src.k # "[]uint8"

\* the "unsupported Scan" error
IsUnsupportedScan(e) ==
  e.kind = "unsupported Scan, storing driver.Value type %T into type %T"

\* C20: a non-nil source scanned into an option of a type that is no
\* pointer fails with the "unsupported Scan" error exactly when no rule
\* takes the pair; the error then carries the source's dynamic type and the
\* destination's type, the option holds T's zero value and no Scan method
\* was called; when a rule takes the pair, the outcome is that rule's, also
\* when the rule fails
C20_UnsupportedScan ==
  (ret.op = "Scan" /\ KindOf(o.T) # "ptr" /\ ret.src # Nil) =>
    /\ IsUnsupportedScan(ret.err) <=> NoRuleApplies(o.T, ret.src)
    /\ NoRuleApplies(o.T, ret.src) =>
          /\ ret.err.srcT = ret.src.k
          /\ ret.err.dest = "*" \o o.T
          /\ ret.err.q = <<>> /\ ret.err.cause = ""
          /\ o.Valid /\ Cur.V = Zero(o.T)
          /\ ret.calls = <<>>

\* an integer scanned into an option of the named string type that held
\* text: refused, nothing held
C20_Witness ==
  /\ ret.op = "Scan" /\ o.T = NamedString /\ ret.src = IntV(1)
  /\ pre.Valid /\ pre.V = Val(NamedString, 0, Hello)
  /\ IsUnsupportedScan(ret.err) /\ Cur.V = Zero(NamedString)

\* a byte slice without bytes: nil or empty
IsEmptyBytes(src) == src.k = "[]uint8" /\ Len(src.s) = 0

\* C21: after Scan the option is absent exactly when the source was the
\* untyped nil; a nil or empty byte slice leaves it present: an
\* Option[string] then holds the empty string and no error is returned, an
\* Option[int64] returns the conversion error and holds 0
C21_OnlyNilIsNoValue ==
  ret.op = "Scan" =>
    /\ IsNull(Cur) <=> ret.src = Nil
    /\ IsEmptyBytes(ret.src) =>
          /\ ~IsNull(Cur)
          /\ o.T = "string" => ret.err = NoErr /\ Cur.V = StrV(<<>>)
          /\ o.T = "int64" =>
                /\ ret.err = ErrConverting(ret.src, <<>>, "int64", ErrSyntax)
                /\ Cur.V = IntV(0)

\* a nil byte slice scanned into an absent Option[int64]: an error, and the
\* option present
C21_Witness ==
  /\ ret.op = "Scan" /\ o.T = "int64" /\ ret.src = NilBytes
  /\ ~pre.Valid /\ ret.err # NoErr /\ ~IsNull(Cur)

\* what a caller sees of Scan(src) on the option opt: presence, the value
\* held (for a pointer what it points at), the error and the calls made
ScanOutcome(opt, src) ==
  LET r == Scan(opt, src)
  IN  [Valid |-> r.o.Valid, k |-> r.o.V.k,
       V |-> IF Len(r.alloc) > 0 THEN r.alloc[Len(r.alloc)] ELSE r.o.V,
       err |-> r.err, calls |-> r.calls]

\* what v points at in the end, v itself when it is no pointer
RECURSIVE Target(_)
Target(v) ==
  IF KindOf(v.k) = "ptr" /\ v.n # 0 THEN Target(heap[v.n]) ELSE v

\* the same of the option variable after the last call
SeenOutcome ==
  [Valid |-> o.Valid, k |-> Cur.V.k,
   V |-> Target(Cur.V),
   err |-> ret.err, calls |-> ret.calls]

\* C22: what Scan(src) leaves in the option and the error it returns are
\* those of Scan(src) on a zero option of the same type, whatever the
\* option held before; after a failed Scan into an Option[X], X one of
\* int64, float64, string and bool, the option holds X's zero value
C22_ScanIgnoresPriorState ==
  ret.op = "Scan" =>
    /\ SeenOutcome = ScanOutcome(Opt(o.T, FALSE, Zero(o.T)), ret.src)
    /\ SeenOutcome = ScanOutcome(Opt(o.T, pre.Valid, pre.V), ret.src)
    /\ (o.T \in NullTypes /\ ret.err # NoErr) => Cur.V = Zero(o.T)

\* text scanned into an Option[int64] that held 1: an error, and 0 held
C22_Witness ==
  /\ ret.op = "Scan" /\ o.T = "int64" /\ ret.src = StrV(Hello)
  /\ pre.Valid /\ pre.V = IntV(1)
  /\ ret.err # NoErr /\ Cur.V = IntV(0)

\* the engine errors for a destination that is no pointer, a nil destination
\* pointer and a nil source
IsMisuseError(e) ==
  \/ e \in {ErrDestNotPointer, ErrDestNil}
  \/ e.kind = "converting NULL to %s is unsupported"

\* C23: every call of scanAssign made for a Scan, the recursive ones for
\* pointer destinations included, has a non-nil source and a non-nil
\* pointer as destination: none is made for a nil source, the first is for
\* the option's own V and the source as given; and Scan never returns
\* "destination not a pointer", "destination pointer is nil" or
\* "converting NULL to ... is unsupported"
C23_EngineArguments ==
  ret.op = "Scan" =>
    /\ \A i \in 1..Len(ret.eng) :
          /\ ret.eng[i].src # Nil /\ ret.eng[i].src = ret.src
          /\ ~ret.eng[i].nildest
          /\ KindOf(ret.eng[i].dest) = "ptr"
    /\ ret.src = Nil => ret.eng = <<>>
    /\ ret.src # Nil =>
          Len(ret.eng) >= 1 /\ ret.eng[1] = Invocation(o.T, FALSE, ret.src)
    /\ ~IsMisuseError(ret.err)

\* an integer scanned into an Option[*int64]: two calls of the engine, the
\* second for the new int64
C23_Witness ==
  /\ ret.op = "Scan" /\ o.T = "*int64" /\ ret.src = IntV(1)
  /\ Len(ret.eng) = 2 /\ ret.eng[2] = Invocation("int64", FALSE, IntV(1))
  /\ ret.err = NoErr

\* C24: for X one of int64, string and bool and an Option[X] q, q.Value()
\* returns no error, and scanning the value it returns into an Option[X],
\* whatever that one held, returns no error and leaves it present exactly
\* when q is, holding what q holds; what an absent q gives is nil and what a
\* present q gives is the held value itself
C24_ValueScanRoundTrip ==
  ret.op = "ScanValueOf" =>
    LET q == ret.given.q
    IN  /\ ret.given.err = NoErr
        /\ ret.given.v = IF q.Valid THEN q.V ELSE Nil
        /\ ret.err = NoErr
        /\ Cur = q
        /\ IsNull(q) => IsNull(Cur) /\ Cur.V = Zero(o.T)
        /\ q = From(o.T, Zero(o.T)) => ~IsNull(Cur) /\ Cur.V = Zero(o.T)

\* the Value of From(int64(0)) scanned into an option that held 1: present
\* and holding 0
C24_Witness ==
  /\ ret.op = "ScanValueOf" /\ o.T = "int64"
  /\ ret.given.q = From("int64", IntV(0))
  /\ pre.Valid /\ pre.V = IntV(1)
  /\ ret.err = NoErr /\ ~IsNull(Cur) /\ Cur.V = IntV(0)

\* T and the types under its pointer levels, outermost first
RECURSIVE PtrChain(_)
PtrChain(T) ==
  IF KindOf(T) = "ptr" THEN <<T>> \o PtrChain(Elem(T)) ELSE <<T>>

\* T and the types under its pointer levels and its option levels
RECURSIVE NestChain(_)
NestChain(T) ==
  IF KindOf(T) = "ptr" THEN <<T>> \o NestChain(Elem(T))
  ELSE IF T = "opt.Option[int64]" THEN <<T>> \o NestChain("int64")
  ELSE <<T>>

\* the calls of scanAssign made for the last Scan are for the first types
\* of chain, in that order, each with the source given to Scan
EngineCallsAlong(chain) ==
  /\ Len(ret.eng) =< Len(chain)
  /\ \A i \in 1..Len(ret.eng) :
        i =< Len(chain) =>
          ret.eng[i].dest = "*" \o chain[i] /\ ret.eng[i].src = ret.src

\* C25 as stated: a Scan into an Option[T], T of pointer depth d, makes at
\* most d+1 nested calls of scanAssign, each after the first for a
\* destination one pointer level below the one before and the same source
C25_PointerDepthBound ==
  ret.op = "Scan" => EngineCallsAlong(PtrChain(o.T))

\* C25: a Scan into an Option[T] makes at most d+1 nested calls of
\* scanAssign, d counting the pointer levels and the option levels of T;
\* each call after the first is for a destination one such level below the
\* one before and the same source: scanAssign is entered again by its
\* pointer rule and by the Scan method of a destination that is an option
C25_NestingDepthBound ==
  ret.op = "Scan" => EngineCallsAlong(NestChain(o.T))

\* an integer scanned into an Option[Option[int64]]: two nested calls, the
\* second for the inner option's int64
C25_Witness ==
  /\ ret.op = "Scan" /\ o.T = "opt.Option[int64]" /\ ret.src = IntV(1)
  /\ Len(ret.eng) = 2 /\ ret.eng[2].dest = "*int64"
  /\ ret.err = NoErr /\ Cur.V = OptionInt64V(1, TRUE)

====
